---- MODULE Spec2Model ----
(***************************************************************************)
(* Local gateway proxy: the multi-workspace proxy engine of                *)
(* src/main/server.ts (class ServerManager) and the control surface of     *)
(* src/main/index.ts.                                                      *)
(*                                                                         *)
(* Spec       the listener lifecycle: startServer / stopServer calls, the  *)
(*            process.nextTick callbacks of the http.Server ('listening',  *)
(*            'error', 'close') and the connections of end clients.        *)
(* SpecRoute  one listening workspace and the requests it answers: the     *)
(*            express pipeline startServer builds (cors, the routes of the *)
(*            enabled endpoints, the bypass middleware, the default 404),  *)
(*            the exchange with the upstream and the api-log events.       *)
(* SpecResolve  the same pipeline for a workspace with one rule, over the  *)
(*            templates and variables that resolveUrl distinguishes.       *)
(* SpecDispatch  the same pipeline for the lists of rules in which a       *)
(*            (method, path) pair comes more than once.                    *)
(* SpecRecorder  the wrappers of res.write / res.end under every sequence  *)
(*            of calls a writer makes on them.                             *)
(* SpecParse  parseGatewayConfig (src/unnamed/part_009) over gateway       *)
(*            documents and integration property names.                    *)
(* SpecWorkspace  the workspace of the renderer (src/unnamed/part_001:     *)
(*            toggleServer, toggleEndpoint, variable edits) and the        *)
(*            listener started from it.                                    *)
(* SpecResolveFair  SpecResolve under weak fairness of the end of the      *)
(*            exchange with the upstream and of the end of the request.    *)
(* SpecLog    the api-log events of a workspace: the closures of the       *)
(*            handlers (request body, api key, status, content encoding),  *)
(*            one request in flight at a time, and the renderer's list.    *)
(* SpecShared the same with two requests in flight on the shared proxy.    *)
(* SpecEdit   the editor of a workspace: updateWorkspace under changes of  *)
(*            the configuration text, the integration property and the     *)
(*            variable values.                                             *)
(***************************************************************************)
EXTENDS Integers, Sequences, FiniteSets, TLC

VARIABLES
    servers,    \* ServerManager.servers: workspace id -> index in srv, 0 = no entry
    srv,        \* every http.Server created by app.listen, in creation order
    calls,      \* the promises returned by startServer / stopServer, in call order
    ticks,      \* process.nextTick queue: events of the servers not yet emitted
    uncaught,   \* an exception escaped a callback (Electron reports it and goes on)
    last,       \* the call whose code ran in the last step, and what it did
    cfg,        \* the arguments the listening workspace was started with
    req,        \* the request being answered
    outcome,    \* the responses the pipeline produced for req, in order
    events,     \* the api-log events sent to the renderer for req, in order
    targetUrl,  \* the targetUrl the handler of req computed
    thrown,     \* the error the catch block of the handler of req caught
    upstream,   \* the exchange proxy.web started for req
    proxyResListeners,  \* the requests whose proxyResHandler is registered on proxy
    res,        \* the calls made on res.write / res.end of req, and what they did
    ws,         \* the workspace of the renderer (App state) the listener was started from
    parsed,     \* the value the last call of parseGatewayConfig returned
    inflight,   \* the closures of the handlers whose requests were handed to proxy.web
    channel,    \* the 'api-log' messages sent to the window, not yet handled by the renderer
    typed       \* the value last typed into the field of each variable (history)

lifeVars == <<servers, srv, calls, ticks, uncaught, last>>
uiVars == <<ws, parsed>>
logVars == <<inflight, channel>>
editVars == <<typed>>
routeVars == <<cfg, req, outcome, events, targetUrl, thrown, upstream, proxyResListeners, res,
               ws, parsed, inflight, channel, typed>>
vars == <<servers, srv, calls, ticks, uncaught, last, cfg, req, outcome, events, targetUrl,
          thrown, upstream, proxyResListeners, res, ws, parsed, inflight, channel, typed>>

----------------------------------------------------------------------------
\* Bounds of the model
MaxCalls == 3       \* startServer + stopServer calls in one behaviour
MaxConns == 1       \* connections of end clients open on one listener
MaxEndpoints == 2   \* endpoint rules in the configuration of a workspace
MaxChunks == 2      \* res.write calls of one response

\* The inputs
Ids == {"workspace-a", "workspace-b"}
Ports == {3001, 3002}
\* What startServer receives as its 7th parameter, mainWindow.  The code reads
\* only its truthiness and its isDestroyed method, so the values are taken by class:
\*   "falsy"  null (the default of a direct call, as in the test script) or false
\*            (the start-server handler passes systemProxyEnabled || false there)
\*   "true"   the boolean true (the handler, with systemProxyEnabled set)
MainWindowArgs == {"falsy", "true"}

NoServer == 0

----------------------------------------------------------------------------
\* sendLog(workspaceId, message, type, mainWindow):
\*   if (mainWindow && !mainWindow.isDestroyed()) ...
\* null and false skip the send; the boolean true has no isDestroyed method and
\* the call throws a TypeError.
SendLogThrows(mw) == mw = "true"

\* ipcMain.handle('start-server'): await startServer(...) inside try / catch
StartServerHandler(st) ==
    CASE st = "resolved" -> [success |-> TRUE, error |-> "none"]
      [] st = "rejected" -> [success |-> FALSE, error |-> "err.message"]
      [] OTHER -> [success |-> FALSE, error |-> "no reply yet"]

\* Map operations on ServerManager.servers
RegistryHas(reg, w) == reg[w] # NoServer
\* A faulty variant of RegistryDelete: this.servers.clear() in place of delete(workspaceId)
RegistryDeleteAll(reg, w) == [v \in DOMAIN reg |-> NoServer]
RegistryDelete(reg, w) == [reg EXCEPT ![w] = NoServer]
RegistrySet(reg, w, n) == [reg EXCEPT ![w] = n]

\* getRunningServers(): Array.from(this.servers.keys())
getRunningServers == {w \in Ids : RegistryHas(servers, w)}

\* A listener is bound (it holds its port and accepts connections) from the
\* successful bind inside listen() until close() releases its handle.
Bound(S, n) == S[n].st = "bound"

\* bind: the port is free among the listeners of this process
PortFree(S, p) == \A n \in 1..Len(S) : ~(Bound(S, n) /\ S[n].port = p)

\* net.Server.close(): release the handle at once; the 'close' event is emitted
\* (on a later tick) only when no connection is left.
ServerClose(S, n) ==
    [S EXCEPT ![n].st = IF @ = "bound" THEN "draining" ELSE @]

\* A faulty variant of Drained: 'close' emitted as soon as the handle is released
DrainedIgnoringConnections(S, n) == S[n].st # "bound"
\* net.Server._emitCloseIfDrained(): handle released and no connection left
Drained(S, n) == S[n].st # "bound" /\ S[n].conns = 0

EmitCloseIfDrained(S, n) ==
    IF Drained(S, n) THEN <<[ev |-> "close", s |-> n]>> ELSE <<>>

Pending(c) == calls[c].st = "pending"

\* The call (promise) that app.listen's server n belongs to
StartCallOf(n) == CHOOSE c \in 1..Len(calls) : calls[c].op = "start" /\ calls[c].s = n

\* The stopServer calls whose close callback is registered on server n
\* (server.once('close', cb)) and has not run yet
StopCallsOn(n) ==
    {c \in 1..Len(calls) : calls[c].op = "stop" /\ calls[c].s = n /\ Pending(c)}

Settle(C, cs, how) == [c \in 1..Len(C) |-> IF c \in cs THEN [C[c] EXCEPT !.st = how] ELSE C[c]]

----------------------------------------------------------------------------
\* The request pipeline of one workspace

\* Path segments.  A path "/users/42" is the sequence <<"users", "42">> of the
\* segments after its leading slash; "/users/" is <<"users", "">>.
IsParam(seg) == seg \in {"{id}"}        \* /^{([a-zA-Z0-9_]+)}$/
Lower(seg) == IF seg = "USERS" THEN "users" ELSE seg

\* path.split('/'): the empty string before the leading slash, then the segments
Split(path) == <<"">> \o path

Methods == {"GET", "HEAD", "OPTIONS"}
RuleMethods == {"GET", "OPTIONS"}
Patterns == {<<"users">>, <<"users", "{id}">>}
Paths == {<<"users">>, <<"USERS">>, <<"users", "">>, <<"users", "42">>, <<"orders">>}

\* Text.  A string of the program (an upstream URI template, the value of a
\* variable, a base URI, a resolved URL) is the sequence of its lexical pieces:
\*   Lit(s)  the literal text s       Var(n)  the text ${n}       Par(n)  the text {n}
\* The literal pieces are cut so that a scheme (http://, https://), a blank and
\* a slash that the code looks for are pieces of their own.
Lit(s) == [k |-> "lit", v |-> s]
Var(n) == [k |-> "var", v |-> n]
Par(n) == [k |-> "par", v |-> n]

Schemes == {Lit("http://"), Lit("https://")}

\* The smallest and the largest element of a non-empty set of integers
Least(S) == CHOOSE i \in S : \A j \in S : i <= j
Greatest(S) == CHOOSE i \in S : \A j \in S : i >= j

\* String.prototype.trim()
Trim(text) ==
    LET ink == {i \in 1..Len(text) : text[i] # Lit(" ")}
    IN IF ink = {} THEN <<>> ELSE SubSeq(text, Least(ink), Greatest(ink))

\* String.prototype.indexOf(piece): the first position of the piece, 0 if none
IndexOf(text, piece) ==
    LET at == {i \in 1..Len(text) : text[i] = piece}
    IN IF at = {} THEN 0 ELSE Least(at)

\* text.replace(new RegExp(piece, 'g'), by): every occurrence is replaced
RECURSIVE ReplaceAll(_, _, _)
ReplaceAll(text, piece, by) ==
    IF text = <<>> THEN <<>>
    ELSE (IF Head(text) = piece THEN by ELSE <<Head(text)>>)
         \o ReplaceAll(Tail(text), piece, by)

\* text.replace(piece, by) with a string pattern: the first occurrence only
ReplaceFirst(text, piece, by) ==
    LET i == IndexOf(text, piece)
    IN IF i = 0 THEN text
       ELSE SubSeq(text, 1, i - 1) \o by \o SubSeq(text, i + 1, Len(text))

\* The upstream URI templates of the rules of a routed workspace
Templates ==
    { <<Lit("https://"), Lit("api.example.com/v1/users")>>,
      <<Lit("https://"), Lit("api.example.com/v1/users/"), Var("token"), Lit("/"), Par("id")>> }

VariableMaps == {[token |-> <<Lit("abc")>>], [token |-> <<Lit(" ")>>]}
\* bypassUri: '' (the handler's default), a blank string, a base URL, and a
\* base given without scheme and with a trailing slash
BypassUris ==
    { <<>>,
      <<Lit(" ")>>,
      <<Lit("https://"), Lit("api.app.com/api")>>,
      <<Lit("api.app.com/api"), Lit("/")>> }
\* mainWindow of a workspace that reached Running (its listen callback did not
\* throw): falsy, or a live BrowserWindow passed by a direct caller
RouteWindows == {"falsy", "window"}

Rules == [method : RuleMethods, path : Patterns, enabled : BOOLEAN, uriTemplate : Templates]

RuleLists == UNION {[1..k -> Rules] : k \in 0..MaxEndpoints}

Configs == [endpoints : RuleLists, variables : VariableMaps,
            bypassEnabled : BOOLEAN, bypassUri : BypassUris, mainWindow : RouteWindows]

NoConfig == [endpoints |-> <<>>, variables |-> [token |-> <<Lit("abc")>>],
             bypassEnabled |-> FALSE, bypassUri |-> <<>>, mainWindow |-> "falsy"]

\* The query strings of the requests: none, or ?q=1
Queries == {<<>>, <<Lit("?q=1")>>}
NoRequest == [method |-> "none", path |-> <<>>, query |-> <<>>]

\* The name inside a {name} segment: paramMatch[1]
ParamName(seg) == IF seg = "{id}" THEN "id" ELSE "none"

\* matchPath(pattern, path): the segment counts are equal, a {name} segment
\* binds its name to any segment (the empty one too), every other segment is equal
matchPath(pattern, path) ==
    LET pp == Split(pattern)
        qq == Split(path)
    IN IF Len(pp) # Len(qq) THEN [ok |-> FALSE, params |-> <<>>]
       ELSE IF \E i \in 1..Len(pp) : ~IsParam(pp[i]) /\ pp[i] # qq[i]
            THEN [ok |-> FALSE, params |-> <<>>]
            ELSE [ok |-> TRUE,
                  params |-> [n \in {ParamName(pp[j]) : j \in {k \in 1..Len(pp) : IsParam(pp[k])}} |->
                                qq[CHOOSE j \in 1..Len(pp) : IsParam(pp[j]) /\ ParamName(pp[j]) = n]]]

\* express (path-to-regexp, default options): the expressPath of a pattern turns
\* {name} into :name, which matches one non-empty segment; literal segments are
\* compared without regard to case; one trailing slash is optional.
StripSlash(path) ==
    IF Len(path) > 0 /\ path[Len(path)] = "" THEN SubSeq(path, 1, Len(path) - 1) ELSE path

ExpressMatch(pattern, path) ==
    LET pp == StripSlash(pattern)
        qq == StripSlash(path)
    IN /\ Len(pp) = Len(qq)
       /\ \A i \in 1..Len(pp) :
             IF IsParam(pp[i]) THEN qq[i] # "" ELSE Lower(pp[i]) = Lower(qq[i])

\* express Route: a route registered with app.get also answers HEAD requests
ExpressHandlesMethod(routeMethod, m) ==
    \/ routeMethod = m
    \/ routeMethod = "GET" /\ m = "HEAD"

\* endpoints.forEach: only the rules with enabled !== false are registered
\* (every method of RuleMethods is a routing method of the express app)
Registered(ep) == ep.enabled # FALSE

\* req.params of the route registered for a pattern: express binds :name to the
\* segment it matched
ExpressParams(pattern, path) ==
    LET bound == {i \in 1..Len(pattern) : IsParam(pattern[i])}
    IN [n \in {ParamName(pattern[i]) : i \in bound} |->
          path[CHOOSE i \in bound : ParamName(pattern[i]) = n]]

\* Object.entries(variables): the entries in insertion order.  The maps of the
\* model were filled in the order of VariableNames.
VariableNames == <<"host", "token", "stageVariables.host", "stageVariables.token">>
Entries(variables) == SelectSeq(VariableNames, LAMBDA n : n \in DOMAIN variables)

\* !val || val.trim() === ''
Blank(val) == val = <<>> \/ Trim(val) = <<>>

\* /^https?:\/\// on the value, /https?:\/\/$/ on the text before the placeholder
HasProtocol(text) == text # <<>> /\ text[1] \in Schemes
EndsWithProtocol(text) == text # <<>> /\ text[Len(text)] \in Schemes

\* resolveUrl, the loop over Object.entries(variables).  For each key whose
\* placeholder ${key} is in the url: a blank value is recorded as missing;
\* otherwise the trimmed value, without its scheme if the text before the FIRST
\* occurrence of the placeholder ends in a scheme, replaces EVERY occurrence.
\* (The values of the model hold no $ sign, so the replacement patterns of
\* String.prototype.replace do not arise.)
RECURSIVE ReplaceVariables(_, _, _, _)
ReplaceVariables(url, missingVariables, keys, variables) ==
    IF keys = <<>> THEN [url |-> url, missingVariables |-> missingVariables]
    ELSE LET key == Head(keys)
             val == variables[key]
             placeholder == Var(key)
             placeholderIndex == IndexOf(url, placeholder)
             beforePlaceholder == SubSeq(url, 1, placeholderIndex - 1)
             normalizedVal ==
                 IF EndsWithProtocol(beforePlaceholder) /\ HasProtocol(Trim(val))
                 THEN Tail(Trim(val)) ELSE Trim(val)
         IN IF placeholderIndex = 0
            THEN ReplaceVariables(url, missingVariables, Tail(keys), variables)
            ELSE IF Blank(val)
                 THEN ReplaceVariables(url, missingVariables \cup {key}, Tail(keys), variables)
                 ELSE ReplaceVariables(ReplaceAll(url, placeholder, normalizedVal),
                                       missingVariables, Tail(keys), variables)

\* resolveUrl, "Check for any unresolved variables": /\$\{([a-zA-Z0-9_.]+)\}/g
\* over the url after the loop.  Of the names of the model, api-key is the one
\* with a character outside [a-zA-Z0-9_.].
MatchesVarName(name) == name # "api-key"
UnresolvedVariables(url) ==
    {url[i].v : i \in {j \in 1..Len(url) : url[j].k = "var" /\ MatchesVarName(url[j].v)}}

\* resolveUrl, "Replace path params": url.replace('{' + key + '}', val || '')
\* for every entry of params, the pattern being a string
RECURSIVE ReplacePathParams(_, _, _)
ReplacePathParams(url, names, params) ==
    IF names = {} THEN url
    ELSE LET key == CHOOSE n \in names : TRUE
             by == IF params[key] = "" THEN <<>> ELSE <<Lit(params[key])>>
         IN ReplacePathParams(ReplaceFirst(url, Par(key), by), names \ {key}, params)

\* resolveUrl(template, params), with the variables of the workspace: it throws
\* (ok = FALSE, the message naming missingVariables) or returns the url
resolveUrl(template, variables, params) ==
    LET pass == ReplaceVariables(template, {}, Entries(variables), variables)
        missingVariables == pass.missingVariables \cup UnresolvedVariables(pass.url)
        url == ReplacePathParams(pass.url, DOMAIN params, params)
    IN IF missingVariables # {}
       THEN [ok |-> FALSE, missing |-> missingVariables, url |-> <<>>]
       ELSE [ok |-> TRUE, missing |-> {}, url |-> url]

\* new URL(targetUrl): it throws unless the text starts with a scheme followed
\* by a host
ValidUrl(url) == Len(url) >= 2 /\ url[1] \in Schemes /\ url[2] # Lit(" ")

\* sendApiLog(workspaceId, apiLog, mainWindow, logId, isUpdate): the api-log
\* events it sends to the renderer: none when mainWindow is falsy, one otherwise
\*   { apiLog: { id: logId || <a new id>, status, ... }, isUpdate: isUpdate && !!logId }
NoLogId == 0
sendApiLog(mainWindow, logId, status, isUpdate) ==
    IF mainWindow = "window"
    THEN <<[id |-> logId, status |-> status, isUpdate |-> (isUpdate /\ logId # NoLogId)]>>
    ELSE <<>>

\* const logId = `req_${Date.now()}_${random}`: the id of the request at hand
LogId == 1

\* What the synchronous part of a handler did: the responses it wrote, the
\* api-log events it sent, its targetUrl, the error its catch block caught, and
\* whether it handed the request to proxy.web
Run(responses, evs, url, caught, sent) ==
    [responses |-> responses, events |-> evs, targetUrl |-> url, thrown |-> caught,
     sent |-> sent]

NoError == [name |-> "none", missing |-> {}]
\* A faulty variant of MissingVariablesError: the message without the names
MissingVariablesErrorUnnamed(names) ==
    [name |-> "Missing or empty required variables", missing |-> {}]
\* throw new Error(`Missing or empty required variables: ${names.join(', ')}`)
MissingVariablesError(names) == [name |-> "Missing or empty required variables", missing |-> names]
InvalidUrlError == [name |-> "Invalid URL", missing |-> {}]

\* A response written for the request, and the rule whose handler wrote it (0:
\* none).  Kinds: "proxy" / "bypass" the request was handed to proxy.web,
\* "500" the catch block of a handler, "express500" the error handler of
\* express, "cors204" the cors() layer, "404" the default handler.
Response(kind, rule) == [kind |-> kind, rule |-> rule]

\* A faulty variant of CatchBlock: the catch block runs with res.end already
\* replaced by the logging wrapper, so res.status(500).json sends a second
\* terminal event
CatchBlockAfterOverride(mainWindow, logId) ==
    sendApiLog(mainWindow, logId, "error", TRUE) \o sendApiLog(mainWindow, logId, "error", TRUE)
\* The catch block of a handler: sendApiLog({status: 'error', statusCode: 500},
\* mainWindow, logId, true), then res.status(500).json on the response whose
\* end method is still the original one (the wrapper is installed after the
\* last statement of the try block that throws)
CatchBlock(mainWindow, logId) == sendApiLog(mainWindow, logId, "error", TRUE)

\* The handler of the route registered for endpoint i, answering request r.
\* sendApiLog / sendLog inside the try block throw when mainWindow is the
\* boolean true; the catch block calls sendLog again, which throws out of the
\* handler, and express answers 500 through its error handler.
RouteHandler(c, i, r) ==
    LET ep == c.endpoints[i]
        resolved == resolveUrl(ep.uriTemplate, c.variables, ExpressParams(ep.path, r.path))
        pending == sendApiLog(c.mainWindow, LogId, "pending", FALSE)
    IN IF SendLogThrows(c.mainWindow)
       THEN Run(<<Response("express500", i)>>, <<>>, <<>>, NoError, FALSE)
       ELSE IF ~resolved.ok
            THEN Run(<<Response("500", i)>>, CatchBlock(c.mainWindow, LogId), <<>>,
                     MissingVariablesError(resolved.missing), FALSE)
            ELSE IF ~ValidUrl(resolved.url)
                 THEN Run(<<Response("500", i)>>, pending \o CatchBlock(c.mainWindow, LogId),
                          resolved.url, InvalidUrlError, FALSE)
                 ELSE Run(<<Response("proxy", i)>>, pending, resolved.url, NoError, TRUE)

\* The text of a request path: a slash before every segment
RECURSIVE PathText(_)
PathText(path) ==
    IF path = <<>> THEN <<>>
    ELSE <<Lit("/")>> \o (IF Head(path) = "" THEN <<>> ELSE <<Lit(Head(path))>>)
         \o PathText(Tail(path))

\* baseUrl.replace(/\/$/, ''): one trailing slash removed.  The last character
\* of a scheme is a slash as well: Lit("https:/") is the scheme cut short.
CutScheme(piece) == IF piece = Lit("https://") THEN Lit("https:/") ELSE Lit("http:/")
RemoveTrailingSlash(text) ==
    IF text = <<>> THEN text
    ELSE LET lastPiece == text[Len(text)]
             front == SubSeq(text, 1, Len(text) - 1)
         IN IF lastPiece = Lit("/") THEN front
            ELSE IF lastPiece \in Schemes THEN Append(front, CutScheme(lastPiece))
            ELSE text

\* baseUrl + requestPath: a scheme cut short and the slash after it are a scheme
Concat(text, more) ==
    IF text # <<>> /\ more # <<>> /\ more[1] = Lit("/")
       /\ text[Len(text)] \in {Lit("https:/"), Lit("http:/")}
    THEN SubSeq(text, 1, Len(text) - 1)
         \o <<IF text[Len(text)] = Lit("https:/") THEN Lit("https://") ELSE Lit("http://")>>
         \o Tail(more)
    ELSE text \o more

\* The target of the bypass middleware:
\*   baseUrl = bypassUri.trim(); 'https://' is put before it unless it starts
\*   with http:// or https://; one trailing slash is removed;
\*   targetUrl = baseUrl + requestPath + queryString
BypassTargetUrl(bypassUri, r) ==
    LET trimmed == Trim(bypassUri)
        baseUrl == IF HasProtocol(trimmed) THEN trimmed ELSE <<Lit("https://")>> \o trimmed
    IN Concat(RemoveTrailingSlash(baseUrl), PathText(r.path)) \o r.query

\* The bypass middleware, for a request that matches no enabled endpoint
BypassHandler(c, r) ==
    LET target == BypassTargetUrl(c.bypassUri, r)
        pending == sendApiLog(c.mainWindow, LogId, "pending", FALSE)
    IN IF SendLogThrows(c.mainWindow)
       THEN Run(<<Response("express500", 0)>>, <<>>, <<>>, NoError, FALSE)
       ELSE IF ~ValidUrl(target)
            THEN Run(<<Response("500", 0)>>, pending \o CatchBlock(c.mainWindow, LogId),
                     target, InvalidUrlError, FALSE)
            ELSE Run(<<Response("bypass", 0)>>, pending, target, NoError, TRUE)

\* A faulty variant of RouteLayers: the route registered last answers
RouteLayersLastWins(c, r) ==
    LET hit == {i \in 1..Len(c.endpoints) :
                  /\ Registered(c.endpoints[i])
                  /\ ExpressHandlesMethod(c.endpoints[i].method, r.method)
                  /\ ExpressMatch(c.endpoints[i].path, r.path)}
    IN IF hit = {} THEN 0 ELSE CHOOSE i \in hit : \A j \in hit : i >= j
\* The layers of the routes, in registration order: the first registered route
\* whose method and expressPath match answers the request
RouteLayers(c, r) ==
    LET hit == {i \in 1..Len(c.endpoints) :
                  /\ Registered(c.endpoints[i])
                  /\ ExpressHandlesMethod(c.endpoints[i].method, r.method)
                  /\ ExpressMatch(c.endpoints[i].path, r.path)}
    IN IF hit = {} THEN 0 ELSE CHOOSE i \in hit : \A j \in hit : i <= j

\* matchesEnabledEndpoint of the bypass middleware
matchesEnabledEndpoint(c, r) ==
    \E i \in 1..Len(c.endpoints) :
        /\ c.endpoints[i].enabled # FALSE
        /\ c.endpoints[i].method = r.method
        /\ matchPath(c.endpoints[i].path, r.path).ok

\* if (bypassEnabled && bypassUri): the bypass middleware is installed
BypassInstalled(c) == c.bypassEnabled /\ c.bypassUri # <<>>

\* The whole pipeline: cors(), the routes, the bypass middleware, the default 404
Pipeline(c, r) ==
    IF r.method = "OPTIONS" THEN Run(<<Response("cors204", 0)>>, <<>>, <<>>, NoError, FALSE)
    ELSE IF RouteLayers(c, r) # 0 THEN RouteHandler(c, RouteLayers(c, r), r)
    ELSE IF BypassInstalled(c) /\ ~matchesEnabledEndpoint(c, r) THEN BypassHandler(c, r)
    ELSE Run(<<Response("404", 0)>>, <<>>, <<>>, NoError, FALSE)

\* No exchange with an upstream, and the exchange proxy.web has just started
NoUpstream == [st |-> "none", statusCode |-> 0]
Sent == [st |-> "sent", statusCode |-> 0]

\* The status codes an upstream answers with
StatusCodes == {200, 302, 502}

\* proxy.once('proxyRes', proxyResHandler): every handler that reaches proxy.web
\* registers a listener on the one proxy of the module; the listeners are
\* removed when they fire, at the next 'proxyRes' event of the proxy, whatever
\* request it belongs to.  LogId names the listener of the request at hand,
\* EarlierRequests the listeners that requests answered before left behind.
EarlierRequests == 2

\* The arguments of res.write / res.end: a chunk is a Buffer, a string or
\* undefined; the encoding is a string or undefined
Buf(bytes) == [t |-> "buffer", v |-> bytes, from |-> "bytes"]
Str(text) == [t |-> "string", v |-> text, from |-> "none"]
Undefined == [t |-> "undefined", v |-> "", from |-> "none"]
Chunks == {Buf("b1"), Str("s1"), Str("")}
Encodings == {"undefined", "base64"}

\* if (chunk): a Buffer is an object, the empty string and undefined are falsy
Truthy(chunk) == chunk.t = "buffer" \/ (chunk.t = "string" /\ chunk.v # "")

\* Buffer.isBuffer(chunk) ? chunk : Buffer.from(chunk, encoding || 'utf8')
BufferFrom(chunk, encoding) ==
    IF chunk.t = "buffer" THEN chunk
    ELSE [t |-> "buffer", v |-> chunk.v,
          from |-> IF encoding = "undefined" THEN "utf8" ELSE encoding]

\* A call of a method of res with its arguments
Call(fn, chunk, encoding) == [fn |-> fn, chunk |-> chunk, encoding |-> encoding]

\* res as the handler left it: write and end replaced by the wrappers, nothing
\* written.  calls: the calls made on res.write / res.end; responseChunks: the
\* chunks the wrappers recorded; wire: the calls that reached the original
\* write / end of the response, which send to the caller
NoRes == [calls |-> <<>>, responseChunks |-> <<>>, wire |-> <<>>]

\* A faulty variant of ForwardWrite: the chunk goes on without its encoding
ForwardWriteNoEncoding(chunk, encoding) == Call("write", chunk, "undefined")
\* return originalWrite(chunk, encoding)
ForwardWrite(chunk, encoding) == Call("write", chunk, encoding)
\* return originalEnd(chunk, encoding)
ForwardEnd(chunk, encoding) == Call("end", chunk, encoding)

\* The chunk a wrapper records: if (chunk) responseChunks.push(...)
Record(chunks, chunk, encoding) ==
    IF Truthy(chunk) THEN Append(chunks, BufferFrom(chunk, encoding)) ELSE chunks

\* res.write = function(chunk, encoding)
ResWrite(r, chunk, encoding) ==
    [calls |-> Append(r.calls, Call("write", chunk, encoding)),
     responseChunks |-> Record(r.responseChunks, chunk, encoding),
     wire |-> Append(r.wire, ForwardWrite(chunk, encoding))]

\* res.end = function(chunk, encoding)
ResEnd(r, chunk, encoding) ==
    [calls |-> Append(r.calls, Call("end", chunk, encoding)),
     responseChunks |-> Record(r.responseChunks, chunk, encoding),
     wire |-> Append(r.wire, ForwardEnd(chunk, encoding))]

\* A response body as its writer hands it to res: the write calls in order,
\* then the end call
RECURSIVE Pipe(_, _)
Pipe(r, body) ==
    IF body.writes = <<>> THEN ResEnd(r, body.end.chunk, body.end.encoding)
    ELSE Pipe(ResWrite(r, Head(body.writes).chunk, Head(body.writes).encoding),
              [body EXCEPT !.writes = Tail(@)])

\* proxyRes.pipe(res) of http-proxy: write(chunk) for the Buffer read from the
\* upstream, then end()
PipedBodies ==
    {[writes |-> <<[chunk |-> Buf("b1"), encoding |-> "undefined"]>>,
      end |-> [chunk |-> Undefined, encoding |-> "undefined"]]}

\* A faulty variant of ProxyErrorBody: the response ended without a body
ProxyErrorNoBody ==
    [writes |-> <<>>, end |-> [chunk |-> Undefined, encoding |-> "undefined"]]
\* proxy.on('error'): res.end(JSON.stringify({ error: 'Proxy error', message }))
ProxyErrorBody ==
    [writes |-> <<>>,
     end |-> [chunk |-> Str("{error: Proxy error, message}"), encoding |-> "undefined"]]

----------------------------------------------------------------------------
\* The parser of the renderer (utils/parser): parseGatewayConfig

\* JSON.  A document is the value JSON.parse returns for it, or NotJson when
\* JSON.parse throws.  An object is the sequence of its entries in the order
\* of the text, which is the order for...in visits them in; the keys of one
\* object are distinct.  A string is the sequence of its lexical pieces.
\* A value is [t: its type, s: the text of a string, o: the entries of an object].
NotJson == [t |-> "invalid", s |-> <<>>, o |-> <<>>]
JNull == [t |-> "null", s |-> <<>>, o |-> <<>>]
JNumber == [t |-> "number", s |-> <<>>, o |-> <<>>]
JString(text) == [t |-> "string", s |-> text, o |-> <<>>]
JObject(entries) == [t |-> "object", s |-> <<>>, o |-> entries]
Missing == [t |-> "undefined", s |-> <<>>, o |-> <<>>]
Entry(key, value) == [key |-> key, val |-> value]

\* value[key]: undefined when the value has no such property
Get(value, key) ==
    IF value.t = "object" /\ \E i \in 1..Len(value.o) : value.o[i].key = key
    THEN value.o[CHOOSE i \in 1..Len(value.o) : value.o[i].key = key].val
    ELSE Missing

\* !value, and typeof value === 'object' of a truthy value
Falsy(value) == value.t \in {"undefined", "null"} \/ (value.t = "string" /\ value.s = <<>>)
IsObject(value) == value.t = "object"

\* const DEFAULT_INTEGRATION_PROPERTY
DEFAULT_INTEGRATION_PROPERTY == "x-amazon-apigateway-integration"

\* VARIABLE_REGEX = /\$\{stageVariables\.([a-zA-Z0-9_]+)\}/g, over the names the
\* documents of the model use in their ${...} placeholders
MatchesStageVariable(name) == name \in {"stageVariables.host", "stageVariables.token"}

\* while ((match = VARIABLE_REGEX.exec(uriTemplate)) !== null) vars.push(...)
RECURSIVE StageVariables(_)
StageVariables(uriTemplate) ==
    IF uriTemplate = <<>> THEN <<>>
    ELSE (IF Head(uriTemplate).k = "var" /\ MatchesStageVariable(Head(uriTemplate).v)
          THEN <<Head(uriTemplate).v>> ELSE <<>>)
         \o StageVariables(Tail(uriTemplate))

\* A faulty variant of toUpperCase: the method key as it is written
KeepCase(method) == method
\* method.toUpperCase(), over the method keys the documents of the model use
toUpperCase(method) ==
    CASE method = "get" -> "GET"
      [] method = "post" -> "POST"
      [] OTHER -> method

\* The test on the descriptor of a method: integration && integration.type ===
\* 'http_proxy' && integration.uri && typeof integration.uri === 'string'
IsHttpProxy(integration) ==
    /\ ~Falsy(integration)
    /\ Get(integration, "type") = JString(<<Lit("http_proxy")>>)
    /\ ~Falsy(Get(integration, "uri"))
    /\ Get(integration, "uri").t = "string"

\* for (const method in methods): the endpoints of one path, from entry j on
RECURSIVE MethodEndpoints(_, _, _, _)
MethodEndpoints(path, methods, j, propertyName) ==
    IF j > Len(methods.o) THEN <<>>
    ELSE LET method == methods.o[j].key
             details == methods.o[j].val
             integration == Get(details, propertyName)
         IN (IF ~Falsy(details) /\ IsObject(details) /\ IsHttpProxy(integration)
             THEN <<[path |-> path,
                     method |-> toUpperCase(method),
                     uriTemplate |-> Get(integration, "uri").s,
                     variableNames |-> StageVariables(Get(integration, "uri").s)]>>
             ELSE <<>>)
            \o MethodEndpoints(path, methods, j + 1, propertyName)

\* for (const path in paths): the endpoints of the document, from entry i on
RECURSIVE PathEndpoints(_, _, _)
PathEndpoints(paths, i, propertyName) ==
    IF i > Len(paths.o) THEN <<>>
    ELSE LET methods == paths.o[i].val
         IN (IF ~Falsy(methods) /\ IsObject(methods)
             THEN MethodEndpoints(paths.o[i].key, methods, 1, propertyName)
             ELSE <<>>)
            \o PathEndpoints(paths, i + 1, propertyName)

\* variableSet.add(varName) for each name in turn; Array.from(variableSet) is
\* the names in the order they were first added
RECURSIVE AddAll(_, _)
AddAll(seen, names) ==
    IF names = <<>> THEN seen
    ELSE AddAll(IF \E k \in 1..Len(seen) : seen[k] = Head(names)
                THEN seen ELSE Append(seen, Head(names)),
                Tail(names))

RECURSIVE VariableSet(_, _)
VariableSet(endpoints, seen) ==
    IF endpoints = <<>> THEN seen
    ELSE VariableSet(Tail(endpoints), AddAll(seen, Head(endpoints).variableNames))

\* parseGatewayConfig(jsonContent, integrationProperty): JSON.parse throwing,
\* and data.paths throwing for the document null, end in the catch block
parseGatewayConfig(jsonContent, integrationProperty) ==
    LET data == jsonContent
        propertyName == IF integrationProperty \in {"undefined", ""}
                        THEN DEFAULT_INTEGRATION_PROPERTY ELSE integrationProperty
        paths == Get(data, "paths")
        endpoints == IF ~Falsy(paths) /\ IsObject(paths)
                     THEN PathEndpoints(paths, 1, propertyName) ELSE <<>>
    IN IF data = NotJson \/ data = JNull
       THEN [endpoints |-> <<>>, variables |-> <<>>]
       ELSE [endpoints |-> endpoints, variables |-> VariableSet(endpoints, <<>>)]

\* The workspace of the renderer and the last call of the parser, where
\* neither takes part
NoWorkspace ==
    [id |-> "none", endpoints |-> <<>>, variables |-> <<>>, bypassEnabled |-> TRUE,
     bypassUri |-> <<>>, isRunning |-> FALSE, apiLogs |-> <<>>,
     configContent |-> NotJson, integrationProperty |-> DEFAULT_INTEGRATION_PROPERTY]
NotParsed ==
    [jsonContent |-> NotJson, integrationProperty |-> "undefined", returned |-> FALSE,
     endpoints |-> <<>>, variables |-> <<>>]

\* A Running workspace: startServer has resolved for configuration cfg, the
\* listener is registered, and a client is connected
RouteInit ==
    /\ cfg \in Configs
    /\ req = NoRequest
    /\ outcome = <<>>
    /\ events = <<>>
    /\ targetUrl = <<>>
    /\ thrown = NoError
    /\ upstream = NoUpstream
    /\ proxyResListeners = {}
    /\ res = NoRes
    /\ ws = NoWorkspace
    /\ parsed = NotParsed
    /\ inflight = <<>>
    /\ channel = <<>>
    /\ typed = <<>>
    /\ srv = <<[id |-> "workspace-a", port |-> 3001, st |-> "bound", conns |-> 1,
                mw |-> cfg.mainWindow]>>
    /\ servers = [w \in Ids |-> IF w = "workspace-a" THEN 1 ELSE NoServer]
    /\ calls = <<[op |-> "start", id |-> "workspace-a", s |-> 1, st |-> "resolved"]>>
    /\ ticks = <<>>
    /\ uncaught = FALSE
    /\ last = [calls |-> {}, id |-> "workspace-a", did |-> {"connect"}]

\* The listener answers a request: the synchronous run of the pipeline.  The
\* requests are taken one at a time; what one leaves behind for the next is the
\* proxyResHandler it registered on the shared proxy, if that never fired.
HandleRequest(m, path, query) ==
    /\ Bound(srv, 1)
    /\ req = NoRequest
    /\ req' = [method |-> m, path |-> path, query |-> query]
    /\ LET run == Pipeline(cfg, req')
       IN /\ outcome' = run.responses
          /\ events' = run.events
          /\ targetUrl' = run.targetUrl
          /\ thrown' = run.thrown
          /\ upstream' = IF run.sent THEN Sent ELSE NoUpstream
          /\ proxyResListeners' = IF run.sent THEN proxyResListeners \cup {LogId}
                                  ELSE proxyResListeners
    /\ res' = NoRes
    /\ UNCHANGED <<cfg, lifeVars, uiVars, logVars, editVars>>

\* The upstream answers; http-proxy pipes the answer into res and the wrapper
\* installed on res.end sends the terminal event:
\*   status: statusCode >= 200 && statusCode < 300 ? 'completed'
\*           : statusCode >= 400 ? 'error' : 'completed'
TerminalStatus(statusCode) ==
    IF statusCode >= 200 /\ statusCode < 300 THEN "completed"
    ELSE IF statusCode >= 400 THEN "error" ELSE "completed"

ProxyRes(statusCode, body) ==
    /\ upstream = Sent
    /\ upstream' = [st |-> "responded", statusCode |-> statusCode]
    /\ proxyResListeners' = {}
    /\ res' = Pipe(NoRes, body)
    /\ events' = events \o sendApiLog(cfg.mainWindow, LogId, TerminalStatus(statusCode), TRUE)
    /\ UNCHANGED <<cfg, req, outcome, targetUrl, thrown, lifeVars, uiVars, logVars, editVars>>

\* The upstream cannot be reached: proxy.on('error') finds the headers unsent,
\* writes the 500 and ends res through the wrapper
ProxyError ==
    /\ upstream = Sent
    /\ upstream' = [st |-> "failed", statusCode |-> 500]
    /\ res' = Pipe(NoRes, ProxyErrorBody)
    /\ events' = events \o sendApiLog(cfg.mainWindow, LogId, TerminalStatus(500), TRUE)
    /\ UNCHANGED <<cfg, req, outcome, targetUrl, thrown, proxyResListeners, lifeVars, uiVars, logVars, editVars>>

\* The client goes away before the upstream answers: http-proxy aborts the
\* upstream request (econnreset, no 'error' event) and res.end is never called
ClientAborts ==
    /\ upstream = Sent
    /\ upstream' = [st |-> "aborted", statusCode |-> 0]
    /\ UNCHANGED <<cfg, req, outcome, events, targetUrl, thrown, proxyResListeners, res,
                   lifeVars, uiVars, logVars, editVars>>

\* The exchange is over; the listener waits for the next request
EndRequest ==
    /\ req # NoRequest
    /\ upstream # Sent
    /\ req' = NoRequest
    /\ outcome' = <<>>
    /\ events' = <<>>
    /\ targetUrl' = <<>>
    /\ thrown' = NoError
    /\ upstream' = NoUpstream
    /\ proxyResListeners' = IF LogId \in proxyResListeners
                            THEN (proxyResListeners \ {LogId}) \cup {EarlierRequests}
                            ELSE proxyResListeners
    /\ res' = NoRes
    /\ UNCHANGED <<cfg, lifeVars, uiVars, logVars, editVars>>

RouteNext ==
    \/ \E m \in Methods, path \in Paths, query \in Queries : HandleRequest(m, path, query)
    \/ \E statusCode \in StatusCodes, body \in PipedBodies : ProxyRes(statusCode, body)
    \/ ProxyError
    \/ ClientAborts
    \/ EndRequest

SpecRoute == RouteInit /\ [][RouteNext]_vars

\* A Running workspace with one enabled rule, GET /users/{id}, whose upstream
\* URI template and variables range over the cases resolveUrl distinguishes
ResolveTemplates ==
    { <<Lit("https://"), Var("host"), Lit("/p")>>,
      <<Lit("https://"), Var("host"), Lit("/login?next="), Var("host")>>,
      <<Var("host"), Lit("/cb?u="), Lit("https://"), Var("host")>>,
      <<Lit("https://"), Lit("api.example.com/v1/users/"), Var("token"), Lit("/"), Par("id")>>,
      <<Lit("https://"), Lit("api.example.com/"), Par("id"), Lit("/copy/"), Par("id")>>,
      <<Var("token"), Lit("/"), Par("id")>>,
      <<Lit("https://"), Lit("api.example.com/"), Var("api-key"), Lit("/p")>> }

\* The values of a variable: empty, whitespace only, plain, padded with
\* blanks, and a URL with its scheme
Values ==
    { <<>>,
      <<Lit(" ")>>,
      <<Lit("abc")>>,
      <<Lit(" "), Lit("abc"), Lit(" ")>>,
      <<Lit("https://"), Lit("example.com")>> }

ResolveVariableMaps == UNION {[names -> Values] : names \in SUBSET {"host", "token"}}

ResolveConfigs ==
    { [endpoints |-> <<[method |-> "GET", path |-> <<"users", "{id}">>, enabled |-> TRUE,
                        uriTemplate |-> template]>>,
       variables |-> variables,
       bypassEnabled |-> bypassEnabled,
       bypassUri |-> <<Lit("https://"), Lit("api.app.com/api")>>,
       mainWindow |-> mainWindow] :
        template \in ResolveTemplates, variables \in ResolveVariableMaps,
        bypassEnabled \in BOOLEAN, mainWindow \in RouteWindows }

ResolveInit ==
    /\ cfg \in ResolveConfigs
    /\ req = NoRequest
    /\ outcome = <<>>
    /\ events = <<>>
    /\ targetUrl = <<>>
    /\ thrown = NoError
    /\ upstream = NoUpstream
    /\ proxyResListeners = {}
    /\ res = NoRes
    /\ ws = NoWorkspace
    /\ parsed = NotParsed
    /\ inflight = <<>>
    /\ channel = <<>>
    /\ typed = <<>>
    /\ srv = <<[id |-> "workspace-a", port |-> 3001, st |-> "bound", conns |-> 1,
                mw |-> cfg.mainWindow]>>
    /\ servers = [w \in Ids |-> IF w = "workspace-a" THEN 1 ELSE NoServer]
    /\ calls = <<[op |-> "start", id |-> "workspace-a", s |-> 1, st |-> "resolved"]>>
    /\ ticks = <<>>
    /\ uncaught = FALSE
    /\ last = [calls |-> {}, id |-> "workspace-a", did |-> {"connect"}]

SpecResolve == ResolveInit /\ [][RouteNext]_vars

\* The same workspace with the scheduling of Node: an exchange that proxy.web
\* started comes to an end in one of the three ways, and the handling of the
\* request is then over.  Nothing makes a client send a request.
ExchangeEnds ==
    \/ \E statusCode \in StatusCodes, body \in PipedBodies : ProxyRes(statusCode, body)
    \/ ProxyError
    \/ ClientAborts

SpecResolveFair ==
    ResolveInit /\ [][RouteNext]_vars /\ WF_vars(ExchangeEnds) /\ WF_vars(EndRequest)

\* A Running workspace whose rules all have the method GET: the lists of rules
\* in which a (method, path) pair comes more than once, with the same or
\* another upstream URI template, enabled or not
DispatchRules ==
    { [method |-> "GET", path |-> path, enabled |-> enabled, uriTemplate |-> template] :
        path \in Patterns, enabled \in BOOLEAN, template \in Templates }

DispatchConfigs ==
    { [endpoints |-> endpoints,
       variables |-> [token |-> <<Lit("abc")>>],
       bypassEnabled |-> bypassEnabled,
       bypassUri |-> <<Lit("https://"), Lit("api.app.com/api")>>,
       mainWindow |-> "window"] :
        endpoints \in UNION {[1..n -> DispatchRules] : n \in 1..MaxEndpoints},
        bypassEnabled \in BOOLEAN }

DispatchInit ==
    /\ cfg \in DispatchConfigs
    /\ req = NoRequest
    /\ outcome = <<>>
    /\ events = <<>>
    /\ targetUrl = <<>>
    /\ thrown = NoError
    /\ upstream = NoUpstream
    /\ proxyResListeners = {}
    /\ res = NoRes
    /\ ws = NoWorkspace
    /\ parsed = NotParsed
    /\ inflight = <<>>
    /\ channel = <<>>
    /\ typed = <<>>
    /\ srv = <<[id |-> "workspace-a", port |-> 3001, st |-> "bound", conns |-> 1,
                mw |-> cfg.mainWindow]>>
    /\ servers = [w \in Ids |-> IF w = "workspace-a" THEN 1 ELSE NoServer]
    /\ calls = <<[op |-> "start", id |-> "workspace-a", s |-> 1, st |-> "resolved"]>>
    /\ ticks = <<>>
    /\ uncaught = FALSE
    /\ last = [calls |-> {}, id |-> "workspace-a", did |-> {"connect"}]

SpecDispatch == DispatchInit /\ [][RouteNext]_vars

\* A Running workspace with one rule and an active bypass, whose responses are
\* written through the wrappers of res.write / res.end in every way a writer
\* may call them: up to MaxChunks write calls, then the end call, each with a
\* Buffer, a string, the empty string or (end only) no chunk, with or without
\* an encoding
WriteCalls == [chunk : Chunks, encoding : Encodings]
EndCalls == [chunk : Chunks \cup {Undefined}, encoding : Encodings]
Bodies ==
    { [writes |-> writes, end |-> end] :
        writes \in UNION {[1..n -> WriteCalls] : n \in 0..MaxChunks}, end \in EndCalls }

RecorderConfig ==
    [endpoints |-> <<[method |-> "GET", path |-> <<"users">>, enabled |-> TRUE,
                      uriTemplate |-> <<Lit("https://"), Lit("api.example.com/v1/users")>>]>>,
     variables |-> [token |-> <<Lit("abc")>>],
     bypassEnabled |-> TRUE,
     bypassUri |-> <<Lit("https://"), Lit("api.app.com/api")>>,
     mainWindow |-> "window"]

RecorderInit ==
    /\ cfg = RecorderConfig
    /\ req = NoRequest
    /\ outcome = <<>>
    /\ events = <<>>
    /\ targetUrl = <<>>
    /\ thrown = NoError
    /\ upstream = NoUpstream
    /\ proxyResListeners = {}
    /\ res = NoRes
    /\ ws = NoWorkspace
    /\ parsed = NotParsed
    /\ inflight = <<>>
    /\ channel = <<>>
    /\ typed = <<>>
    /\ srv = <<[id |-> "workspace-a", port |-> 3001, st |-> "bound", conns |-> 1,
                mw |-> cfg.mainWindow]>>
    /\ servers = [w \in Ids |-> IF w = "workspace-a" THEN 1 ELSE NoServer]
    /\ calls = <<[op |-> "start", id |-> "workspace-a", s |-> 1, st |-> "resolved"]>>
    /\ ticks = <<>>
    /\ uncaught = FALSE
    /\ last = [calls |-> {}, id |-> "workspace-a", did |-> {"connect"}]

RecorderNext ==
    \/ \E m \in Methods, path \in Paths, query \in Queries : HandleRequest(m, path, query)
    \/ \E statusCode \in StatusCodes, body \in Bodies : ProxyRes(statusCode, body)
    \/ ProxyError
    \/ ClientAborts
    \/ EndRequest

SpecRecorder == RecorderInit /\ [][RecorderNext]_vars

----------------------------------------------------------------------------
\* The documents given to the parser: text that is no JSON, JSON values that
\* are no object, objects without paths or with paths that is no object, and
\* paths objects of up to two paths with up to two methods each, whose
\* descriptors hold, under the default or another integration property, an
\* integration of every kind the test of the parser distinguishes
HttpProxy == JString(<<Lit("http_proxy")>>)
Uris ==
    { <<Lit("https://"), Var("stageVariables.host"), Lit("/users")>>,
      <<Lit("https://"), Var("stageVariables.host"), Lit("/"), Var("stageVariables.token"),
        Lit("/"), Par("id"), Lit("?h="), Var("stageVariables.host")>>,
      <<Lit("https://"), Var("host"), Lit("/users")>> }
UsersIntegration ==
    JObject(<<Entry("type", HttpProxy),
              Entry("uri", JString(<<Lit("https://"), Var("stageVariables.host"),
                                     Lit("/users")>>))>>)
TokenIntegration ==
    JObject(<<Entry("uri", JString(<<Lit("https://"), Var("stageVariables.token")>>)),
              Entry("type", HttpProxy)>>)
Integrations ==
    { JObject(<<Entry("type", HttpProxy), Entry("uri", JString(uri))>>) : uri \in Uris }
    \cup { TokenIntegration,
           JObject(<<Entry("type", HttpProxy), Entry("uri", JString(<<>>))>>),
           JObject(<<Entry("type", HttpProxy), Entry("uri", JNumber)>>),
           JObject(<<Entry("type", HttpProxy)>>),
           JObject(<<Entry("type", JString(<<Lit("http")>>)),
                     Entry("uri", JString(<<Lit("https://"), Lit("example.com")>>))>>),
           HttpProxy,
           JNull }
Details ==
    { JObject(<<Entry(DEFAULT_INTEGRATION_PROPERTY, integration)>>) :
        integration \in Integrations }
    \cup { JObject(<<Entry("x-custom-integration", UsersIntegration)>>),
           JObject(<<Entry("x-custom-integration", TokenIntegration),
                     Entry(DEFAULT_INTEGRATION_PROPERTY, UsersIntegration)>>),
           JObject(<<>>),
           JNull,
           JString(<<Lit("text")>>) }
SecondDetails ==
    { JObject(<<Entry(DEFAULT_INTEGRATION_PROPERTY, TokenIntegration)>>),
      JObject(<<Entry("x-custom-integration", UsersIntegration)>>),
      JNull }
MethodObjects ==
    { JObject(<<>>), JNull, JString(<<Lit("text")>>) }
    \cup { JObject(<<Entry(method, details)>>) : method \in {"get", "POST"}, details \in Details }
    \cup { JObject(<<Entry("get", details), Entry("POST", second)>>) :
             details \in Details, second \in SecondDetails }
SecondMethodObjects ==
    { JObject(<<Entry("post", JObject(<<Entry(DEFAULT_INTEGRATION_PROPERTY, UsersIntegration)>>))>>),
      JObject(<<Entry("get", JObject(<<Entry("x-custom-integration", TokenIntegration)>>))>>),
      JNull }
PathObjects ==
    { JObject(<<>>), JNull, JString(<<Lit("text")>>) }
    \cup { JObject(<<Entry("/users", methods)>>) : methods \in MethodObjects }
    \cup { JObject(<<Entry("/users/{id}", methods), Entry("/users", second)>>) :
             methods \in MethodObjects, second \in SecondMethodObjects }
Documents ==
    { NotJson, JNull, JNumber, JString(<<Lit("text")>>), JObject(<<>>),
      JObject(<<Entry("openapi", JString(<<Lit("3.0.1")>>))>>) }
    \cup { JObject(<<Entry("openapi", JString(<<Lit("3.0.1")>>)), Entry("paths", paths)>>) :
             paths \in PathObjects }

\* The integrationProperty argument: left out, empty, or another property name
IntegrationProperties == {"undefined", "", "x-custom-integration"}

\* The arguments of a call of parseGatewayConfig that is about to be made
Arguments(jsonContent, integrationProperty) ==
    [jsonContent |-> jsonContent, integrationProperty |-> integrationProperty,
     returned |-> FALSE, endpoints |-> <<>>, variables |-> <<>>]

\* The application has started (no listener, no request) and the parser is
\* about to be called on a document
ParseInit ==
    /\ servers = [w \in Ids |-> NoServer]
    /\ srv = <<>>
    /\ calls = <<>>
    /\ ticks = <<>>
    /\ uncaught = FALSE
    /\ last = [calls |-> {}, id |-> "none", did |-> {}]
    /\ cfg = NoConfig
    /\ req = NoRequest
    /\ outcome = <<>>
    /\ events = <<>>
    /\ targetUrl = <<>>
    /\ thrown = NoError
    /\ upstream = NoUpstream
    /\ proxyResListeners = {}
    /\ res = NoRes
    /\ ws = NoWorkspace
    /\ parsed \in { Arguments(jsonContent, integrationProperty) :
                      jsonContent \in Documents,
                      integrationProperty \in IntegrationProperties }
    /\ inflight = <<>>
    /\ channel = <<>>
    /\ typed = <<>>

\* The call of parseGatewayConfig: the value it returns for its arguments
Parse ==
    /\ ~parsed.returned
    /\ parsed' = [parsed EXCEPT
          !.returned = TRUE,
          !.endpoints = parseGatewayConfig(parsed.jsonContent,
                                           parsed.integrationProperty).endpoints,
          !.variables = parseGatewayConfig(parsed.jsonContent,
                                           parsed.integrationProperty).variables]
    /\ UNCHANGED <<lifeVars, cfg, req, outcome, events, targetUrl, thrown, upstream,
                   proxyResListeners, res, ws, logVars, editVars>>

ParseNext == Parse

SpecParse == ParseInit /\ [][ParseNext]_vars

\* The workspace of the renderer and its listener: the App component keeps the
\* workspace (endpoints with their enabled flags, variables, bypass settings,
\* isRunning); toggleServer hands a copy of it to the main process over IPC
\* (ipc.invoke serialises its argument), and startServer builds the express
\* app from that copy.  srv holds the listener the workspace started last.
WorkspaceRules ==
    << [method |-> "GET", path |-> <<"users">>, enabled |-> TRUE,
        uriTemplate |-> <<Lit("https://"), Lit("api.example.com/v1/users")>>],
       [method |-> "GET", path |-> <<"users", "{id}">>, enabled |-> TRUE,
        uriTemplate |-> <<Lit("https://"), Lit("api.example.com/v1/users/"), Var("token"),
                          Lit("/"), Par("id")>>] >>

\* The values typed into the field of a variable
WorkspaceValues == {<<Lit("abc")>>, <<Lit(" ")>>, <<Lit("https://"), Lit("example.com")>>}

\* The workspaces that were started: at least one endpoint left enabled
Workspaces ==
    { [endpoints |-> [i \in 1..MaxEndpoints |-> [WorkspaceRules[i] EXCEPT !.enabled = enabled[i]]],
       variables |-> [token |-> value],
       bypassEnabled |-> TRUE,
       bypassUri |-> bypassUri,
       isRunning |-> TRUE,
       id |-> "workspace-a",
       apiLogs |-> <<>>,
       configContent |-> NotJson,
       integrationProperty |-> DEFAULT_INTEGRATION_PROPERTY] :
        enabled \in {f \in [1..MaxEndpoints -> BOOLEAN] : \E i \in 1..MaxEndpoints : f[i]},
        value \in WorkspaceValues,
        bypassUri \in {<<>>, <<Lit("https://"), Lit("api.app.com/api")>>} }

\* ipc.invoke('start-server', {endpoints: ws.endpoints, variables: ws.variables,
\*   bypassEnabled: ws.bypassEnabled !== false, bypassUri: ws.bypassUri || ''}):
\* the handler passes systemProxyEnabled || false where startServer expects
\* mainWindow
StartArguments(w) ==
    [endpoints |-> w.endpoints, variables |-> w.variables,
     bypassEnabled |-> w.bypassEnabled # FALSE, bypassUri |-> w.bypassUri,
     mainWindow |-> "falsy"]

WorkspaceInit ==
    /\ ws \in Workspaces
    /\ cfg = StartArguments(ws)
    /\ req = NoRequest
    /\ outcome = <<>>
    /\ events = <<>>
    /\ targetUrl = <<>>
    /\ thrown = NoError
    /\ upstream = NoUpstream
    /\ proxyResListeners = {}
    /\ res = NoRes
    /\ parsed = NotParsed
    /\ inflight = <<>>
    /\ channel = <<>>
    /\ typed = <<>>
    /\ srv = <<[id |-> "workspace-a", port |-> 3001, st |-> "bound", conns |-> 0,
                mw |-> "falsy"]>>
    /\ servers = [w \in Ids |-> IF w = "workspace-a" THEN 1 ELSE NoServer]
    /\ calls = <<[op |-> "start", id |-> "workspace-a", s |-> 1, st |-> "resolved"]>>
    /\ ticks = <<>>
    /\ uncaught = FALSE
    /\ last = [calls |-> {1}, id |-> "workspace-a", did |-> {"set", "resolve"}]

\* A faulty variant of toggleEndpoint: the listener shares the endpoints with
\* the renderer, so that the flag changes under a running listener as well
toggleEndpointShared(index) ==
    /\ index \in 1..Len(ws.endpoints)
    /\ ws' = [ws EXCEPT !.endpoints[index].enabled = ~(@ # FALSE)]
    /\ cfg' = [cfg EXCEPT !.endpoints = ws'.endpoints]
    /\ UNCHANGED <<req, outcome, events, targetUrl, thrown, upstream, proxyResListeners, res,
                   parsed, lifeVars, logVars, editVars>>

\* toggleEndpoint(workspaceId, index):
\*   newEndpoints[index] = {...newEndpoints[index], enabled: !(newEndpoints[index].enabled !== false)}
\*   return {...ws, endpoints: newEndpoints}
\* It changes the state of the renderer and sends nothing to the main process.
toggleEndpoint(index) ==
    /\ index \in 1..Len(ws.endpoints)
    /\ ws' = [ws EXCEPT !.endpoints[index].enabled = ~(@ # FALSE)]
    /\ UNCHANGED <<cfg, req, outcome, events, targetUrl, thrown, upstream, proxyResListeners,
                   res, parsed, lifeVars, logVars, editVars>>

\* handleVariableChange(key, value): onUpdate({variables: newVars}), which
\* updateWorkspace merges into the workspace (no configContent, no reparse)
handleVariableChange(key, value) ==
    /\ key \in DOMAIN ws.variables
    /\ ws' = [ws EXCEPT !.variables[key] = value]
    /\ typed' = [n \in DOMAIN typed \cup {key} |-> IF n = key THEN value ELSE typed[n]]
    /\ UNCHANGED <<cfg, req, outcome, events, targetUrl, thrown, upstream, proxyResListeners,
                   res, parsed, lifeVars, logVars>>

\* toggleServer(id), taken while the listener answers no request.
\* Running: stop-server closes the listener, which has no connection left; its
\* close callback deletes the registry entry and resolves, and the renderer
\* sets isRunning to false.
\* Not running: without an enabled endpoint it shows a toast and returns;
\* otherwise start-server builds a new express app from the copy of the
\* workspace, its listen callback registers the listener and resolves, and the
\* renderer sets isRunning to true.
toggleServer ==
    /\ Len(calls) < MaxCalls
    /\ req = NoRequest
    /\ IF ws.isRunning
       THEN /\ srv' = [ServerClose(srv, 1) EXCEPT ![1].st = "closed"]
            /\ servers' = RegistryDelete(servers, "workspace-a")
            /\ calls' = Append(calls, [op |-> "stop", id |-> "workspace-a", s |-> 1,
                                       st |-> "resolved"])
            /\ last' = [calls |-> {Len(calls) + 1}, id |-> "workspace-a",
                        did |-> {"close", "closed", "delete", "resolve"}]
            /\ ws' = [ws EXCEPT !.isRunning = FALSE]
            /\ UNCHANGED cfg
       ELSE /\ \E i \in 1..Len(ws.endpoints) : ws.endpoints[i].enabled # FALSE
            /\ cfg' = StartArguments(ws)
            /\ srv' = <<[id |-> "workspace-a", port |-> 3001, st |-> "bound", conns |-> 0,
                         mw |-> cfg'.mainWindow]>>
            /\ servers' = RegistrySet(servers, "workspace-a", 1)
            /\ calls' = Append(calls, [op |-> "start", id |-> "workspace-a", s |-> 1,
                                       st |-> "resolved"])
            /\ last' = [calls |-> {Len(calls) + 1}, id |-> "workspace-a",
                        did |-> {"bind", "bound", "set", "resolve"}]
            /\ ws' = [ws EXCEPT !.isRunning = TRUE]
    /\ UNCHANGED <<req, outcome, events, targetUrl, thrown, upstream, proxyResListeners, res,
                   parsed, ticks, uncaught, logVars, editVars>>

WorkspaceNext ==
    \/ \E index \in 1..MaxEndpoints : toggleEndpoint(index)
    \/ \E value \in WorkspaceValues : handleVariableChange("token", value)
    \/ toggleServer
    \/ \E path \in Paths : HandleRequest("GET", path, <<>>)
    \/ \E statusCode \in StatusCodes, body \in PipedBodies : ProxyRes(statusCode, body)
    \/ ProxyError
    \/ ClientAborts
    \/ EndRequest

SpecWorkspace == WorkspaceInit /\ [][WorkspaceNext]_vars

----------------------------------------------------------------------------
\* The requests in flight and their structured log.  A handler that hands its
\* request to proxy.web leaves a closure behind: the listeners it put on req,
\* the proxyResHandler it registered on the shared proxy and the wrappers it
\* installed on res all read and write the variables of that closure.

MaxRequests == 2    \* requests handed to proxy.web in one behaviour

\* The text of a header: a sequence of character codes; <<>> is the header
\* left out (req.get returns undefined, which the handlers treat as '')
Bearer == <<66, 101, 97, 114, 101, 114, 32>>      \* 'Bearer '
Ellipsis == <<46, 46, 46>>                        \* '...'
Secret(n) == [i \in 1..n |-> 96 + i]              \* n letters, no two the same
Key(n) == [i \in 1..n |-> 64 + i]

StartsWith(text, prefix) ==
    Len(text) >= Len(prefix) /\ SubSeq(text, 1, Len(prefix)) = prefix

\* req.get('authorization')?.replace(/^Bearer /, '') || req.get('x-api-key') || undefined
ApiKey(headers) ==
    LET authorization == headers.authorization
        replaced == IF StartsWith(authorization, Bearer)
                    THEN SubSeq(authorization, Len(Bearer) + 1, Len(authorization))
                    ELSE authorization
    IN IF replaced # <<>> THEN replaced ELSE headers.xApiKey

ApiKeyLength == 20
\* A faulty variant of RedactedApiKey: the credential as it came
WholeApiKey(apiKey) == apiKey
\* apiKey: apiKey ? (apiKey.length > 20 ? apiKey.substring(0, 20) + '...' : apiKey) : undefined
RedactedApiKey(apiKey) ==
    IF apiKey = <<>> THEN <<>>
    ELSE IF Len(apiKey) > ApiKeyLength THEN SubSeq(apiKey, 1, ApiKeyLength) \o Ellipsis
    ELSE apiKey

\* req.get('user-agent') || 'unknown'
UserAgent(headers) == IF headers.userAgent = "" THEN "unknown" ELSE headers.userAgent

\* A faulty variant of hasBody: the body of every request is captured
hasBodyAlways(method) == TRUE
\* const hasBody = ['POST', 'PUT', 'PATCH'].includes(req.method)
hasBody(method) == method \in {"POST", "PUT", "PATCH"}

\* The body of an upstream response as it travels: the text and its coding
Buffer(text, coding) == [text |-> text, coding |-> coding]
\* What an upstream answers: status code, content-encoding header ('' when it
\* sends none) and the body in that encoding
UpstreamResponse(statusCode, contentEncoding, text) ==
    [statusCode |-> statusCode, contentEncoding |-> contentEncoding,
     body |-> Buffer(text, IF contentEncoding = "" THEN "identity" ELSE contentEncoding)]

\* decodeResponseBody(chunks, encoding), for the one chunk http-proxy pipes:
\* zlib is tried when encoding is gzip / deflate / br, and when it throws the
\* buffer is taken as it is; then buffer.toString('utf8'), which gives the text
\* for a plain buffer and replacement characters for a compressed one
decodeResponseBody(chunks, encoding) ==
    IF chunks = <<>> THEN <<>>
    ELSE LET buffer == chunks[1]
             dataToDecode == IF encoding \in {"gzip", "deflate", "br"} /\ buffer.coding = encoding
                             THEN Buffer(buffer.text, "identity")
                             ELSE buffer
         IN IF dataToDecode.coding = "identity" THEN <<dataToDecode.text>>
            ELSE <<"not text", dataToDecode.coding>>

\* The apiLog object of an event: the fields a handler did not give, or gave
\* as undefined, are '' / <<>> / 0
NoApiLog ==
    [id |-> 0, method |-> "", path |-> <<>>, status |-> "", statusCode |-> 0,
     targetUrl |-> <<>>, userAgent |-> "", apiKey |-> <<>>, requestBody |-> <<>>,
     responseBody |-> <<>>, isBypass |-> FALSE]

\* sendApiLog(workspaceId, apiLog, mainWindow, logId, isUpdate) with the fields
\* of apiLog:
\*   mainWindow.webContents.send('api-log',
\*     {workspaceId, apiLog: {id: finalId, ...apiLog}, isUpdate: isUpdate && !!logId})
sendApiLogMessage(workspaceId, apiLog, mainWindow, logId, isUpdate) ==
    IF mainWindow = "window"
    THEN <<[workspaceId |-> workspaceId, apiLog |-> [apiLog EXCEPT !.id = logId],
            isUpdate |-> (isUpdate /\ logId # NoLogId)]>>
    ELSE <<>>

\* The closure of the handler of request r, as proxy.web finds it; id is the
\* logId of the request
Closure(id, r, run) ==
    [id |-> id, method |-> r.method, path |-> r.path, targetUrl |-> run.targetUrl,
     isBypass |-> (run.responses[1].kind = "bypass"),
     apiKey |-> ApiKey(r.headers), userAgent |-> UserAgent(r.headers),
     \* the chunks of the body of req still to arrive, and whether 'end' came
     body |-> r.body, ended |-> FALSE,
     \* route handler: if (hasBody && req.readable) req.on('data') / req.on('end');
     \* bypass middleware: no listener, requestBody is taken from req.body,
     \* which is undefined without a body parser
     capturing |-> (run.responses[1].kind = "proxy" /\ hasBody(r.method)),
     requestChunks |-> <<>>, requestBody |-> <<>>,
     \* the chunks req.pipe(proxyReq) of http-proxy has passed on
     forwarded |-> <<>>,
     statusCode |-> 200, contentEncoding |-> "", responseBody |-> <<>>,
     \* res: the status code and the content-encoding header http-proxy has set
     res |-> [statusCode |-> 200, contentEncoding |-> ""],
     st |-> "sent"]

\* The pending event of a handler (create)
PendingApiLog(x) ==
    [NoApiLog EXCEPT !.method = x.method, !.path = x.path, !.status = "pending",
                     !.targetUrl = x.targetUrl, !.userAgent = x.userAgent,
                     !.apiKey = RedactedApiKey(x.apiKey), !.isBypass = x.isBypass]

\* The terminal event of the res.end wrapper (update)
TerminalApiLog(x) ==
    [NoApiLog EXCEPT !.method = x.method, !.path = x.path,
                     !.status = TerminalStatus(x.statusCode), !.statusCode = x.statusCode,
                     !.targetUrl = x.targetUrl, !.userAgent = x.userAgent,
                     !.apiKey = RedactedApiKey(x.apiKey),
                     !.responseBody = x.responseBody, !.requestBody = x.requestBody,
                     !.isBypass = x.isBypass]

\* A handler hands request r to proxy.web: the pending event, the listeners on
\* req, proxy.once('proxyRes', proxyResHandler), the wrappers on res
Dispatch(r) ==
    /\ Bound(srv, 1)
    /\ Len(inflight) < MaxRequests
    /\ LET run == Pipeline(cfg, r)
           id == Len(inflight) + 1
       IN /\ run.sent
          /\ inflight' = Append(inflight, Closure(id, r, run))
          /\ proxyResListeners' = proxyResListeners \cup {id}
          /\ channel' = channel \o sendApiLogMessage(srv[1].id, PendingApiLog(inflight'[id]),
                                                     cfg.mainWindow, id, FALSE)
    /\ UNCHANGED <<cfg, req, outcome, events, targetUrl, thrown, upstream, res, lifeVars, uiVars, editVars>>

\* 'data' of req: every listener gets the chunk, the one of the capture
\* (requestChunks.push(Buffer.from(chunk))) and the one of req.pipe(proxyReq)
ReqData(i) ==
    /\ i \in 1..Len(inflight)
    /\ inflight[i].st = "sent" /\ inflight[i].body # <<>>
    /\ LET x == inflight[i]
           chunk == Head(x.body)
       IN inflight' = [inflight EXCEPT ![i] =
                         [x EXCEPT !.body = Tail(x.body),
                                   !.requestChunks = IF x.capturing THEN Append(@, chunk) ELSE @,
                                   !.forwarded = Append(@, chunk)]]
    /\ UNCHANGED <<cfg, req, outcome, events, targetUrl, thrown, upstream, res, lifeVars, uiVars,
                   proxyResListeners, channel, editVars>>

\* 'end' of req: if (requestChunks.length > 0) requestBody = Buffer.concat(requestChunks).toString('utf8')
ReqEnd(i) ==
    /\ i \in 1..Len(inflight)
    /\ inflight[i].st = "sent" /\ inflight[i].body = <<>> /\ ~inflight[i].ended
    /\ inflight' = [inflight EXCEPT ![i].ended = TRUE,
                                    ![i].requestBody = IF inflight[i].capturing
                                                       THEN inflight[i].requestChunks ELSE @]
    /\ UNCHANGED <<cfg, req, outcome, events, targetUrl, thrown, upstream, res, lifeVars, uiVars,
                   proxyResListeners, channel, editVars>>

\* proxyResHandler of closure x, run for the response proxyRes of some request:
\*   statusCode = proxyRes.statusCode || 200
\*   contentEncoding = (proxyRes.headers['content-encoding'] || res.getHeader('content-encoding') || '')
\* (res, the response of x, has no header yet when its own listener fires)
proxyResHandler(x, proxyRes) ==
    [x EXCEPT !.statusCode = proxyRes.statusCode, !.contentEncoding = proxyRes.contentEncoding]

\* proxy.emit('proxyRes', proxyRes, req, res) of http-proxy: every listener
\* registered with proxy.once runs, whichever request registered it
EmitProxyRes(flights, listeners, i, proxyRes) ==
    [j \in 1..Len(flights) |->
        IF j \in listeners THEN proxyResHandler(flights[j], proxyRes) ELSE flights[j]]

\* The upstream of request i answers.  http-proxy emits 'proxyRes', copies the
\* status code and the headers to res (the wrapper of res.setHeader takes the
\* content-encoding if the closure has none), and pipes the body: res.write is
\* called with the buffer and res.end without a chunk.  The wrapper of res.end:
\*   responseBody = decodeResponseBody(responseChunks, contentEncoding)
\*   statusCode = res.statusCode || statusCode
\*   sendApiLog({... responseBody: responseBody || undefined,
\*               requestBody: requestBody || undefined}, mainWindow, logId, true)
UpstreamResponds(i, proxyRes) ==
    /\ i \in 1..Len(inflight)
    /\ inflight[i].st = "sent"
    /\ LET emitted == EmitProxyRes(inflight, proxyResListeners, i, proxyRes)
           x == emitted[i]
           contentEncoding == IF x.contentEncoding = "" THEN proxyRes.contentEncoding
                              ELSE x.contentEncoding
           ended == [x EXCEPT !.res = [statusCode |-> proxyRes.statusCode,
                                       contentEncoding |-> proxyRes.contentEncoding],
                              !.contentEncoding = contentEncoding,
                              !.responseBody = decodeResponseBody(<<proxyRes.body>>, contentEncoding),
                              !.statusCode = proxyRes.statusCode,
                              !.st = "ended"]
       IN /\ inflight' = [emitted EXCEPT ![i] = ended]
          /\ channel' = channel \o sendApiLogMessage(srv[1].id, TerminalApiLog(ended),
                                                     cfg.mainWindow, ended.id, TRUE)
    /\ proxyResListeners' = {}
    /\ UNCHANGED <<cfg, req, outcome, events, targetUrl, thrown, upstream, res, lifeVars, uiVars, editVars>>

\* handleApiLog(data) of the renderer, for the oldest message of the channel:
\*   if (ws.id !== data.workspaceId) return ws
\*   return {...ws, apiLogs: [...(ws.apiLogs || []), data.apiLog]}
handleApiLog ==
    /\ channel # <<>>
    /\ LET data == Head(channel)
       IN ws' = IF ws.id # data.workspaceId THEN ws
                ELSE [ws EXCEPT !.apiLogs = Append(@, data.apiLog)]
    /\ channel' = Tail(channel)
    /\ UNCHANGED <<cfg, req, outcome, events, targetUrl, thrown, upstream, res, lifeVars,
                   proxyResListeners, inflight, parsed, editVars>>

\* A Running workspace started by a direct caller with a live window, with two
\* rules for /users and an active bypass, and the workspace of the renderer
\* that shows its log
LogEndpoints(first, second) ==
    << [method |-> first, path |-> <<"users">>, enabled |-> TRUE,
        uriTemplate |-> <<Lit("https://"), Lit("api.example.com/v1/users")>>],
       [method |-> second, path |-> <<"users">>, enabled |-> TRUE,
        uriTemplate |-> <<Lit("https://"), Lit("api.example.com/v1/users")>>] >>

LogConfigs ==
    { [endpoints |-> endpoints,
       variables |-> [token |-> <<Lit("abc")>>],
       bypassEnabled |-> TRUE,
       bypassUri |-> <<Lit("https://"), Lit("api.app.com/api")>>,
       mainWindow |-> "window"] :
        endpoints \in {LogEndpoints("POST", "GET"), LogEndpoints("PUT", "PATCH")} }

LogWorkspace ==
    [id |-> "workspace-a", endpoints |-> <<>>, variables |-> <<>>, bypassEnabled |-> TRUE,
     bypassUri |-> <<Lit("https://"), Lit("api.app.com/api")>>, isRunning |-> TRUE,
     apiLogs |-> <<>>, configContent |-> NotJson,
     integrationProperty |-> DEFAULT_INTEGRATION_PROPERTY]

LogInit ==
    /\ cfg \in LogConfigs
    /\ req = NoRequest
    /\ outcome = <<>>
    /\ events = <<>>
    /\ targetUrl = <<>>
    /\ thrown = NoError
    /\ upstream = NoUpstream
    /\ proxyResListeners = {}
    /\ res = NoRes
    /\ ws = LogWorkspace
    /\ parsed = NotParsed
    /\ inflight = <<>>
    /\ channel = <<>>
    /\ typed = <<>>
    /\ srv = <<[id |-> "workspace-a", port |-> 3001, st |-> "bound", conns |-> 1,
                mw |-> cfg.mainWindow]>>
    /\ servers = [w \in Ids |-> IF w = "workspace-a" THEN 1 ELSE NoServer]
    /\ calls = <<[op |-> "start", id |-> "workspace-a", s |-> 1, st |-> "resolved"]>>
    /\ ticks = <<>>
    /\ uncaught = FALSE
    /\ last = [calls |-> {}, id |-> "workspace-a", did |-> {"connect"}]

\* The requests of the log: five methods, a path with rules and one without,
\* the credentials a caller may send, and a body of up to two chunks
LogMethods == {"GET", "POST", "PUT", "PATCH", "DELETE"}
Authorizations ==
    { <<>>, Bearer, Bearer \o Secret(5), Bearer \o Secret(20), Bearer \o Secret(21),
      Bearer \o Secret(25), Secret(25) }
XApiKeys == {<<>>, Key(21)}
RequestBodies == {<<>>, <<"c1">>, <<"c1", "c2">>}
LogRequest(method, path, authorization, xApiKey, body) ==
    [method |-> method, path |-> path, query |-> <<>>,
     headers |-> [authorization |-> authorization, xApiKey |-> xApiKey, userAgent |-> "curl"],
     body |-> body]

LogResponses ==
    { UpstreamResponse(statusCode, contentEncoding, "ok") :
        statusCode \in {200, 502}, contentEncoding \in {"", "gzip"} }

\* One request, with everything a caller may put into it
LogNext ==
    \/ /\ inflight = <<>>
       /\ \E method \in LogMethods, path \in {<<"users">>, <<"orders">>},
             authorization \in Authorizations, xApiKey \in XApiKeys, body \in RequestBodies :
             Dispatch(LogRequest(method, path, authorization, xApiKey, body))
    \/ \E i \in 1..MaxRequests : ReqData(i)
    \/ \E i \in 1..MaxRequests : ReqEnd(i)
    \/ \E i \in 1..MaxRequests, proxyRes \in LogResponses : UpstreamResponds(i, proxyRes)
    \/ handleApiLog

SpecLog == LogInit /\ [][LogNext]_vars

\* Up to MaxRequests plain GET requests in flight at once on the shared proxy,
\* whose upstreams answer in any order with any of the status codes and
\* content encodings
SharedResponses ==
    { UpstreamResponse(statusCode, contentEncoding, "ok") :
        statusCode \in {200, 404}, contentEncoding \in {"", "gzip", "br"} }

SharedNext ==
    \/ \E path \in {<<"users">>, <<"orders">>} :
          Dispatch(LogRequest("GET", path, <<>>, <<>>, <<>>))
    \/ \E i \in 1..MaxRequests : ReqEnd(i)
    \/ \E i \in 1..MaxRequests, proxyRes \in SharedResponses : UpstreamResponds(i, proxyRes)
    \/ handleApiLog

SpecShared == LogInit /\ [][SharedNext]_vars

----------------------------------------------------------------------------
\* The editor of a workspace: the renderer reparses the configuration on every
\* change of its text or of the integration property name, and rebuilds the
\* endpoints and the variables of the workspace from what the parser returns.

\* {...ws, ...updates}
Merge(w, updates) ==
    [f \in DOMAIN w |-> IF f \in DOMAIN updates THEN updates[f] ELSE w[f]]

\* parsed.variables.forEach(v => { newVariables[v] = ws.variables[v] || '' })
NewVariables(names, variables) ==
    [v \in {names[k] : k \in 1..Len(names)} |->
        IF v \in DOMAIN variables THEN variables[v] ELSE <<>>]

\* parsed.endpoints.map(e => ({...e, enabled: true}))
NewEndpoints(endpoints) ==
    [k \in 1..Len(endpoints) |->
        [path |-> endpoints[k].path, method |-> endpoints[k].method,
         uriTemplate |-> endpoints[k].uriTemplate,
         variableNames |-> endpoints[k].variableNames, enabled |-> TRUE]]

\* shouldReparse || integrationPropChanged
Reparses(w, updates) ==
    \/ "configContent" \in DOMAIN updates /\ updates.configContent # w.configContent
    \/ "integrationProperty" \in DOMAIN updates

\* The call of the parser that updateWorkspace makes
ReparseCall(w, updates) ==
    LET integrationProperty == IF "integrationProperty" \in DOMAIN updates
                               THEN updates.integrationProperty ELSE w.integrationProperty
        configContent == IF "configContent" \in DOMAIN updates
                         THEN updates.configContent ELSE w.configContent
        returned == parseGatewayConfig(configContent, integrationProperty)
    IN [jsonContent |-> configContent, integrationProperty |-> integrationProperty,
        returned |-> TRUE, endpoints |-> returned.endpoints, variables |-> returned.variables]

\* updateWorkspace(id, updates), for the workspace with that id.  The parser
\* catches its own errors and returns no endpoint and no variable for a text
\* that is not JSON, so the catch block of updateWorkspace is never entered.
updateWorkspace(w, updates) ==
    IF Reparses(w, updates)
    THEN LET call == ReparseCall(w, updates)
         IN [Merge(w, updates) EXCEPT !.endpoints = NewEndpoints(call.endpoints),
                                      !.variables = NewVariables(call.variables, w.variables)]
    ELSE Merge(w, updates)

\* A new workspace (addNewWorkspace): no configuration text, which is not
\* JSON, no endpoint and no variable
EditWorkspace ==
    [id |-> "workspace-a", endpoints |-> <<>>, variables |-> <<>>, bypassEnabled |-> TRUE,
     bypassUri |-> <<>>, isRunning |-> FALSE, apiLogs |-> <<>>,
     configContent |-> NotJson, integrationProperty |-> DEFAULT_INTEGRATION_PROPERTY]

EditInit ==
    /\ servers = [w \in Ids |-> NoServer]
    /\ srv = <<>>
    /\ calls = <<>>
    /\ ticks = <<>>
    /\ uncaught = FALSE
    /\ last = [calls |-> {}, id |-> "none", did |-> {}]
    /\ cfg = NoConfig
    /\ req = NoRequest
    /\ outcome = <<>>
    /\ events = <<>>
    /\ targetUrl = <<>>
    /\ thrown = NoError
    /\ upstream = NoUpstream
    /\ proxyResListeners = {}
    /\ res = NoRes
    /\ ws = EditWorkspace
    /\ parsed = NotParsed
    /\ inflight = <<>>
    /\ channel = <<>>
    /\ typed = <<>>

\* The texts typed into the editor: one that is not JSON, and documents with
\* a GET endpoint on /users, and possibly one on /orders, for the upstream
\* URIs of the model
EditPaths == <<"/users", "/orders">>
EditDocument(uris) ==
    JObject(<<Entry("openapi", JString(<<Lit("3.0.1")>>)),
              Entry("paths",
                    JObject([k \in 1..Len(uris) |->
                        Entry(EditPaths[k],
                              JObject(<<Entry("get",
                                  JObject(<<Entry(DEFAULT_INTEGRATION_PROPERTY,
                                      JObject(<<Entry("type", HttpProxy),
                                                Entry("uri", JString(uris[k]))>>))>>))>>))]))>>)
EditDocuments ==
    {NotJson} \cup {EditDocument(<<uri>>) : uri \in Uris}
              \cup {EditDocument(<<first, second>>) : first \in Uris, second \in Uris}

\* handleConfigChange(code): onUpdate({configContent: code})
handleConfigChange(code) ==
    /\ ws' = updateWorkspace(ws, [configContent |-> code])
    /\ parsed' = IF Reparses(ws, [configContent |-> code])
                 THEN ReparseCall(ws, [configContent |-> code]) ELSE parsed
    /\ UNCHANGED <<cfg, req, outcome, events, targetUrl, thrown, upstream, proxyResListeners,
                   res, lifeVars, logVars, editVars>>

\* The integration property field: onUpdate({integrationProperty: value})
handleIntegrationPropertyChange(value) ==
    /\ ws' = updateWorkspace(ws, [integrationProperty |-> value])
    /\ parsed' = ReparseCall(ws, [integrationProperty |-> value])
    /\ UNCHANGED <<cfg, req, outcome, events, targetUrl, thrown, upstream, proxyResListeners,
                   res, lifeVars, logVars, editVars>>

EditNext ==
    \/ \E code \in EditDocuments : handleConfigChange(code)
    \/ \E value \in {DEFAULT_INTEGRATION_PROPERTY, "x-custom-integration"} :
          handleIntegrationPropertyChange(value)
    \/ \E key \in {"stageVariables.host", "stageVariables.token"}, value \in WorkspaceValues :
          handleVariableChange(key, value)

SpecEdit == EditInit /\ [][EditNext]_vars

----------------------------------------------------------------------------
Init ==
    /\ servers = [w \in Ids |-> NoServer]
    /\ srv = <<>>
    /\ calls = <<>>
    /\ ticks = <<>>
    /\ uncaught = FALSE
    /\ last = [calls |-> {}, id |-> "none", did |-> {}]
    /\ cfg = NoConfig
    /\ req = NoRequest
    /\ outcome = <<>>
    /\ events = <<>>
    /\ targetUrl = <<>>
    /\ thrown = NoError
    /\ upstream = NoUpstream
    /\ proxyResListeners = {}
    /\ res = NoRes
    /\ ws = NoWorkspace
    /\ parsed = NotParsed
    /\ inflight = <<>>
    /\ channel = <<>>
    /\ typed = <<>>

\* startServer(workspaceId, port, ..., mainWindow): the promise executor, which
\* runs synchronously inside the call.  bindOk is the environment's part of the
\* bind (a foreign process holds the port, or the port needs privileges).
StartServer(w, p, mw, bindOk) ==
    /\ Len(calls) < MaxCalls
    /\ LET old == servers[w]
           has == RegistryHas(servers, w)
           S1 == IF has THEN ServerClose(srv, old) ELSE srv
           T1 == IF has THEN EmitCloseIfDrained(S1, old) ELSE <<>>
           ok == bindOk /\ PortFree(S1, p)
           n == Len(srv) + 1
           new == [id |-> w, port |-> p, st |-> IF ok THEN "bound" ELSE "failed",
                   conns |-> 0, mw |-> mw]
       IN /\ srv' = Append(S1, new)
          /\ servers' = IF has THEN RegistryDelete(servers, w) ELSE servers
          /\ ticks' = ticks \o T1 \o
                        <<[ev |-> IF ok THEN "listening" ELSE "error", s |-> n]>>
          /\ calls' = Append(calls, [op |-> "start", id |-> w, s |-> n, st |-> "pending"])
          /\ last' = [calls |-> {Len(calls) + 1}, id |-> w,
                      did |-> (IF has THEN {"close", "delete"} ELSE {}) \cup
                              (IF ok THEN {"bind", "bound"} ELSE {"bind"})]
    /\ UNCHANGED uncaught
    /\ UNCHANGED routeVars

\* app.listen's callback, run on the tick after a successful bind:
\*   sendLog(...); this.servers.set(workspaceId, server); resolve()
OnListening ==
    /\ ticks # <<>> /\ Head(ticks).ev = "listening"
    /\ LET n == Head(ticks).s
           w == srv[n].id
           c == StartCallOf(n)
       IN IF SendLogThrows(srv[n].mw)
          THEN /\ uncaught' = TRUE
               /\ last' = [calls |-> {c}, id |-> w, did |-> {"throw"}]
               /\ UNCHANGED <<servers, calls>>
          ELSE /\ servers' = RegistrySet(servers, w, n)
               /\ calls' = Settle(calls, {c}, "resolved")
               /\ last' = [calls |-> {c}, id |-> w, did |-> {"set", "resolve"}]
               /\ UNCHANGED uncaught
    /\ ticks' = Tail(ticks)
    /\ UNCHANGED srv
    /\ UNCHANGED routeVars

\* server.on('error', err => reject(err)), emitted on the tick after a failed bind
OnError ==
    /\ ticks # <<>> /\ Head(ticks).ev = "error"
    /\ LET n == Head(ticks).s
           c == StartCallOf(n)
       IN /\ calls' = Settle(calls, {c}, "rejected")
          /\ last' = [calls |-> {c}, id |-> srv[n].id, did |-> {"reject"}]
    /\ ticks' = Tail(ticks)
    /\ UNCHANGED <<servers, srv, uncaught>>
    /\ UNCHANGED routeVars

\* stopServer(workspaceId, mainWindow): the promise executor
StopServer(w) ==
    /\ Len(calls) < MaxCalls
    /\ LET n == servers[w]
       IN IF RegistryHas(servers, w)
          THEN /\ srv' = ServerClose(srv, n)
               /\ ticks' = ticks \o EmitCloseIfDrained(srv', n)
               /\ calls' = Append(calls, [op |-> "stop", id |-> w, s |-> n, st |-> "pending"])
               /\ last' = [calls |-> {Len(calls) + 1}, id |-> w, did |-> {"close"}]
          ELSE /\ calls' = Append(calls, [op |-> "stop", id |-> w, s |-> NoServer,
                                          st |-> "resolved"])
               /\ last' = [calls |-> {Len(calls) + 1}, id |-> w, did |-> {"resolve"}]
               /\ UNCHANGED <<srv, ticks>>
    /\ UNCHANGED <<servers, uncaught>>
    /\ UNCHANGED routeVars

\* The 'close' event of server n: every close callback registered by stopServer
\* runs:  this.servers.delete(workspaceId); sendLog(...); resolve()
OnClose ==
    /\ ticks # <<>> /\ Head(ticks).ev = "close"
    /\ LET n == Head(ticks).s
           cs == StopCallsOn(n)
       IN /\ srv' = [srv EXCEPT ![n].st = "closed"]
          /\ servers' = IF cs # {} THEN RegistryDelete(servers, srv[n].id) ELSE servers
          /\ calls' = Settle(calls, cs, "resolved")
          /\ last' = [calls |-> cs, id |-> srv[n].id,
                      did |-> IF cs # {} THEN {"closed", "delete", "resolve"} ELSE {"closed"}]
    /\ ticks' = Tail(ticks)
    /\ UNCHANGED uncaught
    /\ UNCHANGED routeVars

\* An end client connects to a bound listener (I/O: only between ticks)
Connect(n) ==
    /\ ticks = <<>>
    /\ Bound(srv, n) /\ srv[n].conns < MaxConns
    /\ srv' = [srv EXCEPT ![n].conns = @ + 1]
    /\ last' = [calls |-> {}, id |-> srv[n].id, did |-> {"connect"}]
    /\ UNCHANGED <<servers, calls, ticks, uncaught>>
    /\ UNCHANGED routeVars

\* A connection ends; the server emits 'close' if that drained it
Disconnect(n) ==
    /\ ticks = <<>>
    /\ srv[n].conns > 0
    /\ srv' = [srv EXCEPT ![n].conns = @ - 1]
    /\ ticks' = EmitCloseIfDrained(srv', n)
    /\ last' = [calls |-> {}, id |-> srv[n].id, did |-> {"disconnect"}]
    /\ UNCHANGED <<servers, calls, uncaught>>
    /\ UNCHANGED routeVars

Next ==
    \/ \E w \in Ids, p \in Ports, mw \in MainWindowArgs, bindOk \in BOOLEAN :
          StartServer(w, p, mw, bindOk)
    \/ \E w \in Ids : StopServer(w)
    \/ OnListening
    \/ OnError
    \/ OnClose
    \/ \E n \in 1..Len(srv) : Connect(n)
    \/ \E n \in 1..Len(srv) : Disconnect(n)

Spec == Init /\ [][Next]_vars

----------------------------------------------------------------------------
\* The listeners of workspace w that are bound
BoundListeners(w) == {n \in 1..Len(srv) : srv[n].id = w /\ Bound(srv, n)}

\* This step is a call of startServer / stopServer (a promise was created)
Called == Len(calls') = Len(calls) + 1
NewCall == calls'[Len(calls')]

\* The lifecycle steps of the registry: close, registry delete, bind, registry set
LifecycleSteps == {"close", "delete", "bind", "set"}

\* C1: for every workspace id, in every reachable state, at most one listener
\* created for that id is bound and able to accept connections.
C1_AtMostOneListener == \A w \in Ids : Cardinality(BoundListeners(w)) <= 1

\* C2: when startServer is called for an id whose listener is Running, the bind
\* of the new listener happens only once the previous listener is fully closed
\* (its 'close' event emitted, no connection left): a step that binds a new
\* listener for an id whose registry entry was Running ends with that previous
\* listener closed.
C2_ClosedBeforeBind ==
    [][\A w \in Ids :
         ( /\ RegistryHas(servers, w) /\ Bound(srv, servers[w])
           /\ Called /\ NewCall.op = "start" /\ NewCall.id = w
           /\ Bound(srv', NewCall.s) )
         => /\ srv'[servers[w]].st = "closed"
            /\ srv'[servers[w]].conns = 0]_vars

\* C3: a start and a stop for the same workspace id never interleave: no
\* lifecycle step (close, registry delete, bind, registry set) of one call runs
\* while a call of the other kind for the same id is still pending.
C3_Serialized ==
    \A c \in last.calls : \A d \in 1..Len(calls) :
        ( /\ d \notin last.calls
          /\ calls[d].id = calls[c].id
          /\ calls[d].op # calls[c].op
          /\ Pending(d) )
        => last.did \cap LifecycleSteps = {}

\* C4: startServer called twice in succession for the same id with two
\* different ports: once the second call has resolved, exactly one listener of
\* that id is bound, it is the one on the new port, and the registry holds it.
C4_SecondStartWins ==
    ( /\ Len(calls) = 2
      /\ calls[1].op = "start" /\ calls[2].op = "start"
      /\ calls[1].id = calls[2].id
      /\ srv[calls[1].s].port # srv[calls[2].s].port
      /\ calls[2].st = "resolved" )
    => /\ BoundListeners(calls[2].id) = {calls[2].s}
       /\ servers[calls[2].id] = calls[2].s

\* C5: in every state where no start or stop is in progress, getRunningServers()
\* returns an id if and only if a listener for that id is bound.
C5_ListIsRunning ==
    (\A c \in 1..Len(calls) : ~Pending(c))
    => \A w \in Ids : (w \in getRunningServers) <=> (BoundListeners(w) # {})

\* C6: when the bind fails, startServer rejects, the start-server handler
\* returns an error result, and the id is Stopped: it is not returned by
\* getRunningServers() and no listener for it is bound.
C6_BindFailureLeavesStopped ==
    ("reject" \in last.did)
    => \A c \in last.calls :
          /\ calls[c].st = "rejected"
          /\ StartServerHandler(calls[c].st).success = FALSE
          /\ calls[c].id \notin getRunningServers
          /\ BoundListeners(calls[c].id) = {}

\* C7: stopServer(id) on an id with no registry entry resolves at once and
\* leaves the registry and the listeners unchanged; on a Running id it closes
\* the listener and stays pending; a stopServer promise resolves only in a step
\* after which its listener is closed with no connection left and the id is no
\* longer in the registry.
C7_Stop ==
    [][ /\ \A w \in Ids :
             (Called /\ NewCall.op = "stop" /\ NewCall.id = w)
             => IF RegistryHas(servers, w)
                THEN /\ ~Bound(srv', servers[w])
                     /\ NewCall.st = "pending"
                ELSE /\ NewCall.st = "resolved"
                     /\ servers' = servers
                     /\ srv' = srv
        /\ \A c \in 1..Len(calls) :
             (calls[c].op = "stop" /\ Pending(c) /\ calls'[c].st # "pending")
             => /\ calls'[c].st = "resolved"
                /\ srv'[calls[c].s].st = "closed"
                /\ srv'[calls[c].s].conns = 0
                /\ ~RegistryHas(servers', calls[c].id) ]_vars

\* C7 witness: the 'close' event of a listener has just resolved a stop of a
\* Running id, and a stop of an id without entry has resolved as a no-op.
C7_Witness ==
    /\ \E c \in 1..Len(calls) :
          /\ calls[c].op = "stop" /\ calls[c].s # NoServer /\ calls[c].st = "resolved"
          /\ last.did = {"closed", "delete", "resolve"} /\ c \in last.calls
    /\ \E d \in 1..Len(calls) : calls[d].op = "stop" /\ calls[d].s = NoServer

\* C8: workspaces with different ids run independently: a step taken for one id
\* (a start, a failed start, a stop, a callback, a connection) leaves the
\* registry entry and every listener of every other id unchanged, and a start
\* that resolves leaves its listener bound and registered.
C8_Independent ==
    /\ [][\A v \in Ids :
            (v # last'.id)
            => /\ servers'[v] = servers[v]
               /\ \A n \in 1..Len(srv) : srv[n].id = v => srv'[n] = srv[n]]_vars
    /\ []( ("set" \in last.did)
           => \A c \in last.calls : /\ Bound(srv, calls[c].s)
                                    /\ servers[calls[c].id] = calls[c].s )

\* C8 witness: both workspaces are Running on different ports, and the last
\* step was a start of one of them that failed to bind.
C8_Witness ==
    /\ \A w \in Ids : RegistryHas(servers, w) /\ Bound(srv, servers[w])
    /\ srv[servers["workspace-a"]].port # srv[servers["workspace-b"]].port
    /\ last.did = {"reject"}

----------------------------------------------------------------------------
\* The request matches rule i of its workspace as the specification defines a
\* match: equal method, and matchPath on the pattern
MatchesRule(i) ==
    /\ cfg.endpoints[i].method = req.method
    /\ matchPath(cfg.endpoints[i].path, req.path).ok

MatchesEnabledRule ==
    \E i \in 1..Len(cfg.endpoints) : cfg.endpoints[i].enabled /\ MatchesRule(i)
MatchesDisabledRule ==
    \E i \in 1..Len(cfg.endpoints) : ~cfg.endpoints[i].enabled /\ MatchesRule(i)

\* The rule's handler ran and carried the request to the point of forwarding,
\* or answered 500 itself because the template did not resolve
HandledByRule(o) == o.kind \in {"proxy", "500"} /\ o.rule # 0

\* C9: every request accepted by a workspace has exactly one outcome: handled
\* by an enabled rule (proxied to its resolved upstream; 500 when the template
\* does not resolve) if its method and path match an enabled rule, otherwise
\* forwarded to the bypass target if bypass is enabled with a base URI,
\* otherwise 404.
C9_OneOutcome ==
    (req # NoRequest)
    => /\ Len(outcome) = 1
       /\ IF MatchesEnabledRule
          THEN /\ HandledByRule(outcome[1])
               /\ cfg.endpoints[outcome[1].rule].enabled
               /\ MatchesRule(outcome[1].rule)
          ELSE IF cfg.bypassEnabled /\ cfg.bypassUri # <<>>
               THEN outcome[1].kind = "bypass"
               ELSE outcome[1].kind = "404"

\* C10: a request whose method and path match only a disabled rule is never
\* proxied directly: it is forwarded to the bypass target or answered 404,
\* depending on the bypass configuration.
C10_DisabledNeverProxied ==
    (req # NoRequest /\ MatchesDisabledRule /\ ~MatchesEnabledRule)
    => /\ Len(outcome) = 1
       /\ outcome[1].kind = IF cfg.bypassEnabled /\ cfg.bypassUri # <<>>
                            THEN "bypass" ELSE "404"

----------------------------------------------------------------------------
\* The bypass is active as the specification defines it: enabled, with a
\* non-empty base URI
BypassActive == cfg.bypassEnabled /\ cfg.bypassUri # <<>>

\* The normal dispatch routed the request to the handler of a rule
RoutedToRule == \E j \in 1..Len(outcome) : outcome[j].rule # 0

\* C11: when bypass is active (enabled with a non-empty base URI), every
\* request that the normal dispatch does not route to an enabled rule, the
\* requests matching a disabled rule included, is forwarded to the bypass
\* target (the handler answering 500 when the target is no URL, and the CORS
\* layer answering the OPTIONS requests, are left aside); none is answered 404.
C11_BypassNever404 ==
    (req # NoRequest /\ BypassActive /\ ~RoutedToRule)
    => /\ Len(outcome) = 1
       /\ outcome[1].kind \in {"bypass", "500", "cors204"}
       /\ outcome[1].kind # "404"

\* C12: a request to an endpoint that is disabled in the configuration the
\* server was started with (its method and path match a disabled rule and no
\* enabled one) is answered 404.
C12_DisabledReturns404 ==
    (req # NoRequest /\ MatchesDisabledRule /\ ~MatchesEnabledRule)
    => outcome = <<Response("404", 0)>>

\* The api-log events: a create event with status pending, a terminal event
IsCreate(e) == ~e.isUpdate /\ e.status = "pending"
IsTerminal(e) == e.status \in {"completed", "error"}

\* A handler took the request (a rule's handler or the bypass middleware), the
\* log sink is a live window, and the exchange is over with a response written
HandledAndAnswered ==
    /\ req # NoRequest
    /\ cfg.mainWindow = "window"
    /\ outcome[1].kind \in {"proxy", "bypass", "500"}
    /\ upstream.st \in {"none", "responded", "failed"}

\* C13: every request handled by a workspace produces exactly one event with
\* status pending followed by exactly one terminal event (completed or error),
\* the two carrying the same request id.
C13_PendingThenTerminal ==
    HandledAndAnswered
    => /\ Len(events) = 2
       /\ IsCreate(events[1])
       /\ IsTerminal(events[2])
       /\ events[1].id = events[2].id

\* C14: no event flagged isUpdate=true is emitted for a request id unless a
\* create event (isUpdate=false, status pending) with the same id was emitted
\* earlier, on the direct and on the bypass path.
C14_CreateBeforeUpdate ==
    (cfg.mainWindow = "window")
    => \A j \in 1..Len(events) :
          events[j].isUpdate
          => \E i \in 1..(j - 1) : IsCreate(events[i]) /\ events[i].id = events[j].id

\* C15: once an event with status completed or error has been emitted for a
\* request id, no further event with that id is emitted: a terminal event is
\* the last event of its id, and while a request is at hand its events change
\* only by one more being appended, never after a terminal one.
C15_TerminalIsLast ==
    /\ [](\A i \in 1..Len(events) : \A j \in 1..Len(events) :
             (i < j /\ events[i].id = events[j].id) => ~IsTerminal(events[i]))
    /\ [][(req # NoRequest /\ req' = req)
           => /\ Len(events') >= Len(events)
              /\ SubSeq(events', 1, Len(events)) = events
              /\ (\E i \in 1..Len(events) : IsTerminal(events[i])) => events' = events]_vars

\* C15 witness: with a live window, the bypass middleware has forwarded a
\* request, the upstream could not be reached, and the wrapper of res.end has
\* sent the terminal event after the pending one
C15_Witness ==
    /\ cfg.mainWindow = "window"
    /\ req # NoRequest
    /\ outcome = <<Response("bypass", 0)>>
    /\ upstream.st = "failed"
    /\ Len(events) = 2 /\ IsCreate(events[1]) /\ events[2].status = "error"

----------------------------------------------------------------------------
\* The rule whose handler took the request, its template and the path
\* parameters express bound for it
HandlingRule == cfg.endpoints[outcome[1].rule]
BoundParams == DOMAIN ExpressParams(HandlingRule.path, req.path)

\* The variables a template needs and the workspace does not supply: the names
\* of its ${name} placeholders whose variable is absent, empty or whitespace-only
WhitespaceOnly(val) == \A i \in 1..Len(val) : val[i] = Lit(" ")
MissingVariables(template, variables) ==
    {template[i].v : i \in {j \in 1..Len(template) :
        /\ template[j].k = "var"
        /\ \/ template[j].v \notin DOMAIN variables
           \/ WhitespaceOnly(variables[template[j].v])}}

\* C16: whenever at least one ${...} placeholder of the template of the rule
\* is not resolved by the variables (absent, empty or whitespace-only),
\* resolveUrl fails: no URL comes out of it and nothing is forwarded, the
\* failure names every missing variable, and the request is answered 500.
C16_MissingVariablesFail ==
    (req # NoRequest /\ RoutedToRule
       /\ MissingVariables(HandlingRule.uriTemplate, cfg.variables) # {})
    => /\ outcome = <<Response("500", outcome[1].rule)>>
       /\ targetUrl = <<>>
       /\ upstream = NoUpstream
       /\ thrown.name = "Missing or empty required variables"
       /\ MissingVariables(HandlingRule.uriTemplate, cfg.variables) \subseteq thrown.missing

\* resolveUrl returned for the request (its result is targetUrl)
Resolved ==
    /\ req # NoRequest /\ RoutedToRule
    /\ thrown.name # "Missing or empty required variables"

\* C17: when resolveUrl succeeds, the result contains no ${name} placeholder of
\* a supplied variable and no {name} placeholder of a bound path parameter:
\* every one of them has been replaced.
C17_NoPlaceholderLeft ==
    Resolved
    => \A i \in 1..Len(targetUrl) :
          /\ ~(targetUrl[i].k = "var" /\ targetUrl[i].v \in DOMAIN cfg.variables)
          /\ ~(targetUrl[i].k = "par" /\ targetUrl[i].v \in BoundParams)

\* The scheme-collision rule applied to each placeholder occurrence of a
\* template on its own: the trimmed value, its scheme stripped once exactly
\* when the template text just before this occurrence ends in a scheme
RECURSIVE SubstitutedFrom(_, _, _)
SubstitutedFrom(i, template, variables) ==
    IF i > Len(template) THEN <<>>
    ELSE LET piece == template[i]
             val == Trim(variables[piece.v])
             here == IF piece.k # "var" \/ piece.v \notin DOMAIN variables THEN <<piece>>
                     ELSE IF i > 1 /\ template[i - 1] \in Schemes /\ HasProtocol(val)
                          THEN Tail(val)
                          ELSE val
         IN here \o SubstitutedFrom(i + 1, template, variables)

HasNoPathParam(template) == \A i \in 1..Len(template) : template[i].k # "par"

\* C18: for every placeholder occurrence whose preceding text ends in http://
\* or https://, a value that begins with a scheme has it stripped once before
\* substitution, and an occurrence not preceded by a scheme receives the
\* value unchanged; the resolved URL never holds a doubled scheme.
C18_SchemeCollision ==
    (Resolved /\ HasNoPathParam(HandlingRule.uriTemplate))
    => /\ targetUrl = SubstitutedFrom(1, HandlingRule.uriTemplate, cfg.variables)
       /\ \A i \in 1..(Len(targetUrl) - 1) :
             ~(targetUrl[i] \in Schemes /\ targetUrl[i + 1] \in Schemes)

\* The bypass target as the specification builds it: the base URI, https://
\* put before it when it has no scheme, one trailing slash removed, then the
\* request path, then the query string
SpecifiedBypassTarget ==
    LET base == cfg.bypassUri
        withScheme == IF base[1] \in Schemes THEN base ELSE <<Lit("https://")>> \o base
        trimmed == IF withScheme[Len(withScheme)] = Lit("/")
                   THEN SubSeq(withScheme, 1, Len(withScheme) - 1) ELSE withScheme
    IN trimmed \o PathText(req.path) \o req.query

PathMatchesNoEnabledRule ==
    \A i \in 1..Len(cfg.endpoints) :
        cfg.endpoints[i].enabled => ~matchPath(cfg.endpoints[i].path, req.path).ok

\* C19: for a request whose path matches no enabled rule (the OPTIONS requests
\* answered by the CORS layer aside): with bypass enabled and a base URI that is
\* not blank, it is forwarded to the base URI (scheme-defaulted, one trailing
\* slash removed) + the request path + the query string; with bypass disabled
\* it is answered 404.
C19_BypassTarget ==
    (req # NoRequest /\ req.method # "OPTIONS" /\ PathMatchesNoEnabledRule)
    => IF cfg.bypassEnabled
       THEN WhitespaceOnly(cfg.bypassUri)
            \/ ( /\ outcome = <<Response("bypass", 0)>>
                 /\ targetUrl = SpecifiedBypassTarget )
       ELSE outcome = <<Response("404", 0)>>

\* C20: the bypass router is active only when bypass is enabled and the base
\* URI is non-empty; with bypass disabled, or the base URI unset, empty or
\* blank, a request unmatched by an enabled rule (and answered neither by the
\* CORS layer nor by a route) is answered by the default
\* 404 {message: "No route found in gateway config", workspaceId}.
C20_InactiveBypassIs404 ==
    (req # NoRequest /\ req.method # "OPTIONS" /\ ~MatchesEnabledRule /\ ~RoutedToRule
       /\ (~cfg.bypassEnabled \/ WhitespaceOnly(cfg.bypassUri)))
    => outcome = <<Response("404", 0)>>

----------------------------------------------------------------------------
\* The request was handed to proxy.web, by the handler of a rule (the direct
\* path) or by the bypass middleware.  The URL http-proxy calls is the target
\* base followed by req.url, the two parts the handler cut targetUrl into.
Forwarded == req # NoRequest /\ Len(outcome) = 1 /\ outcome[1].kind \in {"proxy", "bypass"}

EndsWith(text, suffix) ==
    /\ Len(suffix) <= Len(text)
    /\ SubSeq(text, Len(text) - Len(suffix) + 1, Len(text)) = suffix

\* C21: the query string takes no part in path matching (the request is
\* answered as the same request without its query string is), and it is
\* preserved in the upstream URL: for every forwarded request, on the direct
\* path as on the bypass path, the URL sent upstream ends with the query
\* string of the incoming request.
C21_QueryPreserved ==
    (req # NoRequest)
    => /\ outcome = Pipeline(cfg, [req EXCEPT !.query = <<>>]).responses
       /\ Forwarded => EndsWith(targetUrl, req.query)

\* A pattern matches a path as the specification defines it: as many segments,
\* every literal segment equal to the segment of the path at its place, a
\* {name} segment matching any single segment
SegmentsMatch(pattern, path) ==
    /\ Len(pattern) = Len(path)
    /\ \A k \in 1..Len(pattern) : IsParam(pattern[k]) \/ pattern[k] = path[k]

\* The segments the specification binds: name of each {name} segment -> the
\* segment of the path at its place
SegmentsBound(pattern, path) ==
    [name \in {ParamName(pattern[k]) : k \in {n \in 1..Len(pattern) : IsParam(pattern[n])}} |->
        path[CHOOSE k \in 1..Len(pattern) : IsParam(pattern[k]) /\ ParamName(pattern[k]) = name]]

\* C22: path matching, in matchPath and in the dispatch to the routes: a
\* pattern of N segments matches a request path if and only if the path has
\* exactly N segments and every literal segment equals the segment of the path
\* case-sensitively; each {name} segment binds name to the segment at its
\* place; nothing matches by prefix or in part.
C22_PathMatching ==
    (req # NoRequest)
    => /\ \A i \in 1..Len(cfg.endpoints) :
             LET m == matchPath(cfg.endpoints[i].path, req.path)
             IN /\ m.ok <=> SegmentsMatch(cfg.endpoints[i].path, req.path)
                /\ m.ok => m.params = SegmentsBound(cfg.endpoints[i].path, req.path)
       /\ RoutedToRule
          => /\ SegmentsMatch(HandlingRule.path, req.path)
             /\ ExpressParams(HandlingRule.path, req.path)
                  = SegmentsBound(HandlingRule.path, req.path)

----------------------------------------------------------------------------
\* Two rules are the same for the dispatch: same method, same path pattern
SamePattern(i, j) ==
    /\ cfg.endpoints[i].method = cfg.endpoints[j].method
    /\ cfg.endpoints[i].path = cfg.endpoints[j].path

\* C23: among the enabled rules the dispatch follows source order and the
\* first match wins: the rule whose handler takes a request is enabled, and no
\* enabled rule before it in the list has its method and path pattern; the
\* request is resolved with the upstream template of that rule and with no
\* later one.
C23_FirstMatchWins ==
    (req # NoRequest /\ RoutedToRule)
    => /\ HandlingRule.enabled
       /\ \A j \in 1..Len(cfg.endpoints) :
             (cfg.endpoints[j].enabled /\ SamePattern(j, outcome[1].rule))
             => outcome[1].rule <= j
       /\ Forwarded
          => targetUrl = resolveUrl(HandlingRule.uriTemplate, cfg.variables,
                                    ExpressParams(HandlingRule.path, req.path)).url

\* Two enabled rules share method and path pattern and differ in their
\* templates; a matching request was forwarded to the upstream of the earlier
C23_Witness ==
    /\ req # NoRequest /\ RoutedToRule /\ Forwarded
    /\ outcome[1].rule = 1
    /\ Len(cfg.endpoints) >= 2
    /\ cfg.endpoints[2].enabled /\ SamePattern(1, 2)
    /\ cfg.endpoints[1].uriTemplate # cfg.endpoints[2].uriTemplate
    /\ targetUrl # resolveUrl(cfg.endpoints[2].uriTemplate, cfg.variables,
                              ExpressParams(cfg.endpoints[2].path, req.path)).url

----------------------------------------------------------------------------
\* The request at hand failed resolution: resolveUrl threw for missing variables
FailedResolution == thrown.name = "Missing or empty required variables"

\* The listener of the workspace is bound and registered
ListenerUp == Bound(srv, 1) /\ RegistryHas(servers, "workspace-a") /\ ~uncaught

\* Nothing is left of a request: the listener waits for the next one
Idle ==
    /\ req = NoRequest /\ outcome = <<>> /\ events = <<>> /\ targetUrl = <<>>
    /\ thrown = NoError /\ upstream = NoUpstream /\ res = NoRes

----------------------------------------------------------------------------
\* The upstream of the request at hand could not be reached
UpstreamFailed == upstream.st = "failed"

----------------------------------------------------------------------------
\* The caller of the request at hand went away before the upstream answered
CallerGone == upstream.st = "aborted"

\* C26: when the caller disconnects before the upstream response completes,
\* the upstream call of the request is aborted and what the request holds is
\* released: the exchange is over, no listener of the request stays registered
\* on the shared proxy, and the listener of the workspace stays up.
C26_AbortReleases ==
    CallerGone => (LogId \notin proxyResListeners /\ ListenerUp)

----------------------------------------------------------------------------
\* C27: the traffic recorder is a pure pass-through: every call of res.write
\* and res.end reaches the original method of the response with the same chunk
\* and the same encoding argument, one call for one call and in the same
\* order, so the caller receives the bytes it would receive without recording.
C27_RecorderPassThrough ==
    /\ res.wire = res.calls
    /\ \A k \in 1..Len(res.calls) :
          /\ res.wire[k].fn = res.calls[k].fn
          /\ res.wire[k].chunk = res.calls[k].chunk
          /\ res.wire[k].encoding = res.calls[k].encoding

\* A response was written in three calls, a base64 string, a Buffer and the
\* end with an empty string; the recorder kept two chunks and passed on three
C27_Witness ==
    /\ upstream.st = "responded"
    /\ res.calls = << Call("write", Str("s1"), "base64"),
                      Call("write", Buf("b1"), "undefined"),
                      Call("end", Str(""), "undefined") >>
    /\ Len(res.responseChunks) = 2
    /\ res.responseChunks[1] # Str("s1")
    /\ Len(res.wire) = 3

----------------------------------------------------------------------------
\* The integration property a call is configured with, and the descriptors of
\* a document that qualify under it: the positions (i, j) of the paths and
\* their methods whose descriptor holds, under that property, an object with
\* type http_proxy and a uri that is a non-empty string
ConfiguredProperty ==
    IF parsed.integrationProperty \in {"undefined", ""}
    THEN "x-amazon-apigateway-integration" ELSE parsed.integrationProperty

DocumentPaths ==
    IF parsed.jsonContent.t = "object" /\ Get(parsed.jsonContent, "paths").t = "object"
    THEN Get(parsed.jsonContent, "paths").o ELSE <<>>

MethodsOf(i) == IF DocumentPaths[i].val.t = "object" THEN DocumentPaths[i].val.o ELSE <<>>

Qualifies(descriptor) ==
    /\ descriptor.t = "object"
    /\ LET integration == Get(descriptor, ConfiguredProperty)
       IN /\ integration.t = "object"
          /\ Get(integration, "type") = JString(<<Lit("http_proxy")>>)
          /\ Get(integration, "uri").t = "string"
          /\ Get(integration, "uri").s # <<>>

Qualifying ==
    {ij \in (1..2) \X (1..2) :
        /\ ij[1] <= Len(DocumentPaths)
        /\ ij[2] <= Len(MethodsOf(ij[1]))
        /\ Qualifies(MethodsOf(ij[1])[ij[2]].val)}

UpperCased(method) == IF method \in {"get", "GET"} THEN "GET" ELSE "POST"

\* C29: parseGatewayConfig returns for every document.  For a document that is
\* not valid JSON, or in which no (path, method) qualifies, it returns an empty
\* endpoint list and an empty variable list; otherwise it returns exactly one
\* endpoint per (path, method) whose descriptor, under the configured
\* integration property (x-amazon-apigateway-integration by default), has type
\* http_proxy and a non-empty string uri: that path, the method upper-cased,
\* that uri, and no other endpoint.
C29_ParseGatewayConfig ==
    parsed.returned
    => /\ (parsed.jsonContent = NotJson \/ Qualifying = {})
          => (parsed.endpoints = <<>> /\ parsed.variables = <<>>)
       /\ Len(parsed.endpoints) = Cardinality(Qualifying)
       /\ \A ij \in Qualifying :
             Cardinality({k \in 1..Len(parsed.endpoints) :
                 /\ parsed.endpoints[k].path = DocumentPaths[ij[1]].key
                 /\ parsed.endpoints[k].method = UpperCased(MethodsOf(ij[1])[ij[2]].key)
                 /\ parsed.endpoints[k].uriTemplate
                      = Get(Get(MethodsOf(ij[1])[ij[2]].val, ConfiguredProperty), "uri").s}) = 1

\* A document with two paths: the first has a lower-case get whose descriptor
\* qualifies under the default property and a POST that does not, the second
\* a lower-case post that qualifies; the parser returned the two endpoints
C29_Witness ==
    /\ parsed.returned
    /\ parsed.integrationProperty = "undefined"
    /\ Len(DocumentPaths) = 2
    /\ Qualifying = {<<1, 1>>, <<2, 1>>}
    /\ Len(MethodsOf(1)) = 2
    /\ Len(parsed.endpoints) = 2
    /\ parsed.endpoints[1].method = "GET" /\ parsed.endpoints[1].path = "/users/{id}"
    /\ parsed.endpoints[2].method = "POST" /\ parsed.endpoints[2].path = "/users"
    /\ parsed.variables = <<"stageVariables.host">>

----------------------------------------------------------------------------
\* The step creates the listener of the workspace: toggleServer from a
\* workspace that is not running
StartsListener == ~ws.isRunning /\ ws'.isRunning

\* The step hands a request to the listener
AcceptsRequest == req = NoRequest /\ req' # NoRequest

\* C28: the route table and the variables of a running workspace are
\* read-only for the lifetime of its listener.  A listener is bound exactly
\* while the workspace is running; the endpoints, enabled flags, variables and
\* bypass settings the listener works from change only in the step that
\* creates a listener, where they become those of the workspace at that moment
\* (so an edit takes effect only after a stop followed by a start); and every
\* request is routed and resolved according to them, whatever the workspace of
\* the renderer has become since.
C28_ReadOnlyWhileRunning ==
    [][ /\ Bound(srv, 1) <=> ws.isRunning
        /\ cfg' # cfg => StartsListener /\ cfg' = StartArguments(ws)
        /\ StartsListener => cfg' = StartArguments(ws) /\ ws'.endpoints = ws.endpoints
                             /\ ws'.variables = ws.variables
        /\ AcceptsRequest =>
             /\ ws.isRunning
             /\ outcome' = Pipeline(cfg, req').responses
             /\ targetUrl' = Pipeline(cfg, req').targetUrl
             /\ thrown' = Pipeline(cfg, req').thrown ]_vars

\* A running workspace whose first endpoint was disabled and whose variable
\* was blanked after the start answers GET /users/42 and GET /users from the
\* rules and the value it was started with
C28_Witness ==
    /\ ws.isRunning /\ Bound(srv, 1)
    /\ Len(calls) = MaxCalls
    /\ cfg.endpoints[1].enabled /\ ~ws.endpoints[1].enabled
    /\ cfg.endpoints[2].enabled /\ ws.endpoints[2].enabled
    /\ cfg.variables.token = <<Lit("abc")>> /\ ws.variables.token = <<Lit(" ")>>
    /\ req = [method |-> "GET", path |-> <<"users", "42">>, query |-> <<>>]
    /\ outcome = <<Response("proxy", 2)>>
    /\ targetUrl = <<Lit("https://"), Lit("api.example.com/v1/users/"), Lit("abc"), Lit("/"),
                     Lit("42")>>

----------------------------------------------------------------------------
\* C30: the match used for normal dispatch and the bypass-eligibility check
\* agree on every request: the request is routed to the handler of an enabled
\* rule if and only if matchesEnabledEndpoint (matchPath over the enabled
\* rules with the method of the request) reports a match.
C30_DispatchAgreesWithBypassCheck ==
    (req # NoRequest) => (RoutedToRule <=> matchesEnabledEndpoint(cfg, req))

----------------------------------------------------------------------------
\* The apiLog objects sent so far: those the renderer holds and those on the way
ApiLogsSent ==
    {ws.apiLogs[k] : k \in 1..Len(ws.apiLogs)} \cup {channel[k].apiLog : k \in 1..Len(channel)}

\* C31: the request body is captured only for requests with method POST, PUT
\* or PATCH: no event of a request with another method carries a requestBody
\* and no handler listens to the body of such a request; and the capture reads
\* the chunks alongside the forwarder: every chunk that has arrived has been
\* passed on to the upstream, captured or not, and the captured chunks are
\* those passed on.
C31_BodyCapture ==
    /\ \A e \in ApiLogsSent :
          e.method \notin {"POST", "PUT", "PATCH"} => e.requestBody = <<>>
    /\ \A i \in 1..Len(inflight) :
          /\ inflight[i].capturing => inflight[i].method \in {"POST", "PUT", "PATCH"}
          /\ inflight[i].method \notin {"POST", "PUT", "PATCH"}
               => inflight[i].requestChunks = <<>> /\ inflight[i].requestBody = <<>>
          /\ inflight[i].forwarded \o inflight[i].body \in RequestBodies
          /\ inflight[i].capturing => inflight[i].requestChunks = inflight[i].forwarded

\* A GET request with a body of two chunks was routed to the rule GET /users:
\* both chunks reached the upstream and the terminal event has no requestBody
C31_Witness ==
    /\ Len(inflight) = 1
    /\ inflight[1].method = "GET" /\ ~inflight[1].isBypass
    /\ inflight[1].forwarded = <<"c1", "c2">> /\ inflight[1].ended
    /\ inflight[1].st = "ended"
    /\ Len(ws.apiLogs) = 2
    /\ ws.apiLogs[2].status = "completed" /\ ws.apiLogs[2].requestBody = <<>>

----------------------------------------------------------------------------
\* The events sent for the request of closure x, in the order they were sent
EventsOf(x) ==
    SelectSeq(ws.apiLogs \o [k \in 1..Len(channel) |-> channel[k].apiLog],
              LAMBDA e : e.id = x.id)

\* What the route handler records in the terminal event of a request whose
\* body has arrived in full: the body, for the methods it captures
RecordedByRouteHandler(x) ==
    IF x.method \in {"POST", "PUT", "PATCH"} THEN x.forwarded ELSE <<>>

\* C32: a bypass-forwarded request is recorded exactly like a directly proxied
\* one.  On both paths a request that was answered after its body had arrived
\* has two events, pending and terminal, which carry the same method, path,
\* caller metadata and credential, the status and body of the response, and
\* the request body the route handler records; only the target and isBypass
\* tell the paths apart.
C32_BypassRecordedLikeDirect ==
    \A i \in 1..Len(inflight) :
        LET x == inflight[i]
        IN (x.st = "ended" /\ x.ended)
           => /\ Len(EventsOf(x)) = 2
              /\ EventsOf(x)[1].status = "pending" /\ EventsOf(x)[2].status # "pending"
              /\ \A k \in 1..2 :
                    /\ EventsOf(x)[k].method = x.method
                    /\ EventsOf(x)[k].path = x.path
                    /\ EventsOf(x)[k].userAgent = x.userAgent
                    /\ EventsOf(x)[k].apiKey = RedactedApiKey(x.apiKey)
              /\ EventsOf(x)[2].statusCode = x.statusCode
              /\ EventsOf(x)[2].responseBody = x.responseBody
              /\ EventsOf(x)[2].requestBody = RecordedByRouteHandler(x)

----------------------------------------------------------------------------
\* The credential of the request of closure x, as the caller sent it: the
\* Authorization header without its 'Bearer ' prefix, or else the x-api-key
\* header
Credential(x) == x.apiKey

\* The characters of the credential from the 21st on
Remaining(x) == {Credential(x)[k] : k \in 21..Len(Credential(x))}

\* C33: the apiKey of every log event is redacted.  On every event of a
\* request, on both paths, apiKey is the credential when that has at most 20
\* characters, and its first 20 characters followed by '...' when it is
\* longer; no character of the credential after the 20th is in the field.
C33_ApiKeyRedacted ==
    \A i \in 1..Len(inflight) :
        LET x == inflight[i]
        IN \A k \in 1..Len(EventsOf(x)) :
              LET logged == EventsOf(x)[k].apiKey
              IN /\ Len(Credential(x)) <= 20 => logged = Credential(x)
                 /\ Len(Credential(x)) > 20
                      => /\ Len(logged) = 23
                         /\ SubSeq(logged, 1, 20) = SubSeq(Credential(x), 1, 20)
                         /\ SubSeq(logged, 21, 23) = <<46, 46, 46>>
                 /\ \A c \in 1..Len(logged) : logged[c] \notin Remaining(x)

\* A bypass-forwarded request with a bearer token of 25 characters has its two
\* events in the renderer, both with the first 20 characters and the marker
C33_Witness ==
    /\ Len(inflight) = 1
    /\ inflight[1].isBypass /\ inflight[1].st = "ended"
    /\ Len(inflight[1].apiKey) = 25
    /\ Len(ws.apiLogs) = 2
    /\ ws.apiLogs[1].apiKey = Secret(20) \o Ellipsis
    /\ ws.apiLogs[2].apiKey = Secret(20) \o Ellipsis

----------------------------------------------------------------------------
\* C34: the renderer keys the structured log by request id: apiLogs holds at
\* most one entry per request id (an event with isUpdate = true patches the
\* entry of its id instead of adding one).
C34_OneEntryPerRequest ==
    \A j, k \in 1..Len(ws.apiLogs) : ws.apiLogs[j].id = ws.apiLogs[k].id => j = k

----------------------------------------------------------------------------
\* The pending event of the request at hand was sent, and its terminal event
PendingSent == \E k \in 1..Len(events) : IsCreate(events[k])
TerminalSent == \E k \in 1..Len(events) : IsTerminal(events[k])

\* C35: every request for which a pending event was emitted eventually gets
\* its terminal event, however its exchange ends (upstream success, upstream
\* failure, the caller disconnecting): no entry stays pending forever.
C35_PendingGetsTerminal == PendingSent ~> TerminalSent

----------------------------------------------------------------------------
\* C36: with several requests in flight on the shared proxy, the status code
\* and the content-encoding recorded for a request, and used to decode its
\* captured response body, are those of the request's own upstream response,
\* in whatever order the upstreams answer: the closure of an answered request
\* holds the status code and the content-encoding of its own res, and the
\* recorded body is the text the upstream sent.
C36_OwnResponseRecorded ==
    \A i \in 1..Len(inflight) :
        inflight[i].st = "ended"
        => /\ inflight[i].statusCode = inflight[i].res.statusCode
           /\ inflight[i].contentEncoding = inflight[i].res.contentEncoding
           /\ inflight[i].responseBody = <<"ok">>

----------------------------------------------------------------------------
\* The step runs the callback of the 'listening' or 'error' event of server n
ListenOutcome(n) ==
    /\ ticks # <<>>
    /\ Head(ticks).s = n /\ Head(ticks).ev \in {"listening", "error"}
    /\ ticks' = Tail(ticks)

\* C37: every start-server control call returns {success: true} or
\* {success: false, error}, whatever its arguments: once the listener has
\* bound or failed to bind, the promise of its startServer call is settled
\* and the handler has its reply.
C37_StartSettles ==
    [][ \A n \in 1..Len(srv) :
           ListenOutcome(n)
           => /\ calls'[StartCallOf(n)].st \in {"resolved", "rejected"}
              /\ StartServerHandler(calls'[StartCallOf(n)].st).error # "no reply yet" ]_vars

----------------------------------------------------------------------------
\* C38: the log sink of a workspace started through the start-server control
\* call is the main window of the control surface: the window of the renderer
\* that started the workspace exists, so every request the listener hands to
\* an upstream has its pending event sent to it.
C38_LogsReachMainWindow ==
    (req # NoRequest /\ upstream # NoUpstream) => events # <<>>

\* The variables of the workspace, a value entered for each of them
Filled(variables) == [n \in DOMAIN variables |-> <<Lit("abc")>>]

\* C39: every placeholder that the resolver requires at request time in the
\* upstream template of a parsed endpoint is listed among the variables of the
\* workspace: with a value entered for every listed variable, resolveUrl
\* reports no missing variable for any endpoint.
C39_PlaceholdersListed ==
    \A k \in 1..Len(ws.endpoints) :
        /\ UnresolvedVariables(ws.endpoints[k].uriTemplate) \subseteq DOMAIN ws.variables
        /\ resolveUrl(ws.endpoints[k].uriTemplate, Filled(ws.variables), [id |-> "42"]).ok

\* C40: editing the configuration preserves the values of the variables: a
\* variable of the current configuration for which a value was typed holds
\* that value, whatever texts the editor held in between.
C40_ValuesSurviveEdits ==
    \A v \in DOMAIN typed : v \in DOMAIN ws.variables => ws.variables[v] = typed[v]

====
